---- MODULE Spec2Model ----
(***************************************************************************)
(* Model of CommandExecutorFactory::get_command_executor                   *)
(* (app/buck2_server/src/daemon/common.rs): the selection of the executor, *)
(* the cache-checker chain and the cache uploader for one action, from the *)
(* factory's execution strategy, the action's executor config and the      *)
(* process environment; of the executors and of the broker the factory     *)
(* hands out; of the helpers of the same file; of the BroadcastChannel of  *)
(* remote_execution/oss/re_grpc/src/broadcaster.rs; and of the CLI entry   *)
(* point exec of app/buck2/src/lib.rs.                                     *)
(*                                                                         *)
(* Each part has its own specification (Spec, WarnSpec, HybridSpec, ...)   *)
(* over its own variables; the variables of the other parts stay Unused.   *)
(*                                                                         *)
(* Rust enums are records with a `kind` field; Option<T> is a record with  *)
(* a `some` field; anyhow::Result<T> is a record with a `tag` field.       *)
(* Byte counts of re_max_input_files_bytes are in units of GiB (1024^3     *)
(* bytes): 30 * 1024^3 does not fit TLC's integers.                        *)
(***************************************************************************)
EXTENDS Integers, Sequences, FiniteSets, TLC

VARIABLES
    factory,          \* the CommandExecutorFactory of the invocation
    env,              \* the process environment: build flavour and the two EnvHelper statics
    WARN,             \* static WARN: OnceLock<()>, TRUE once initialised
    warnings,         \* number of "Cargo build detected" warnings emitted so far
    executor_config,  \* Option: the argument of the latest get_command_executor call
    result,           \* the anyhow::Result the latest call returned, NoCall when none is held
    locals,           \* the locals of the RemoteEnabled arm of the latest call
    calls,            \* WarnSpec: the threads calling get_command_executor concurrently
    run,              \* HybridSpec: one action running on a HybridExecutor
    sharing,          \* BrokerSpec: the host sharing brokers and the local commands
    pipeline,         \* PipelineSpec: the actions driven from a CommandExecutorResponse
    daemon,           \* HelperSpec: parse_concurrency and get_default_re_properties
    channel,          \* BroadcastSpec: the handles of one BroadcastChannel
    cli               \* ExecSpec: one run of the CLI entry point exec

factory_vars == <<factory, env, WARN, warnings, executor_config, result, locals>>

vars == <<factory, env, WARN, warnings, executor_config, result, locals,
          calls, run, sharing, pipeline, daemon, channel, cli>>

\* The value of the variable of a part the specification at hand does not use.
Unused == "unused"

----------------------------------------------------------------------------
(* Option<T> *)

None == [some |-> FALSE]

Some(x) == [some |-> TRUE, val |-> x]

----------------------------------------------------------------------------
(* The inputs: strategies, environments, executor configs *)

ExecutionStrategy ==
    {"Default", "LocalOnly", "RemoteOnly", "HybridPreferLocal", "HybridPreferRemote",
     "NoExecution"}

\* The raw value of an EnvHelper<bool> variable in the process environment.
EnvValue == {"unset", "true", "false", "invalid"}

\* LocalExecutorOptions; Default is use_persistent_workers = false.
LocalExecutorOptions == [use_persistent_workers : BOOLEAN]

LocalExecutorOptionsDefault == [use_persistent_workers |-> FALSE]

\* RemoteExecutorOptions: re_max_input_files_bytes is an Option<u64>.
RemoteExecutorOptions == [re_max_input_files_bytes : {None, Some(1)}]

HybridExecutionLevel ==
    {[kind |-> "Limited"]}
    \cup [kind : {"Full"}, fallback_on_failure : BOOLEAN, low_pass_filter : BOOLEAN]

RemoteEnabledExecutor ==
    [kind : {"Local"}, local : LocalExecutorOptions]
    \cup [kind : {"Remote"}, remote : RemoteExecutorOptions]
    \cup [kind : {"Hybrid"}, local : {LocalExecutorOptionsDefault},
          remote : RemoteExecutorOptions, level : HybridExecutionLevel]

CacheUploadBehavior ==
    {[kind |-> "Disabled"]} \cup [kind : {"Enabled"}, max_bytes : {1000, 2000}]

\* re_properties: a SortedMap<String, String>, as the sequence of its entries in key order.
RePropertiesSet == {<< <<"platform", "mac">>, <<"subplatform", "any">> >>}

Executor ==
    [kind : {"Local"}, local : LocalExecutorOptions]
    \cup [kind : {"RemoteEnabled"},
          executor : RemoteEnabledExecutor,
          re_properties : RePropertiesSet,
          cache_upload_behavior : CacheUploadBehavior,
          remote_cache_enabled : BOOLEAN,
          remote_dep_file_cache_enabled : BOOLEAN]

CommandExecutorConfig == [executor : Executor]

----------------------------------------------------------------------------
(* trait ExecutionStrategyExt *)

\* Mutant: RemoteOnly no longer bans the local executor.
ban_local_without_remote_only(strategy) == strategy = "NoExecution"

ban_local(strategy) == strategy \in {"RemoteOnly", "NoExecution"}

\* Mutant: LocalOnly no longer bans the remote executor.
ban_remote_without_local_only(strategy) == strategy = "NoExecution"

ban_remote(strategy) == strategy \in {"LocalOnly", "NoExecution"}

\* Mutant: no strategy bans the hybrid executor.
ban_hybrid_never(strategy) == FALSE

\* Mutant: every strategy that bans one side bans the hybrid executor too.
ban_hybrid_when_any_side_banned(strategy) ==
    strategy \in {"LocalOnly", "RemoteOnly", "NoExecution"}

ban_hybrid(strategy) == strategy = "NoExecution"

\* Mutant: LocalOnly and RemoteOnly give a preferred side, not a required one.
hybrid_preference_never_required(strategy) ==
    CASE strategy \in {"HybridPreferLocal", "LocalOnly"} -> "LocalPreferred"
      [] strategy \in {"HybridPreferRemote", "RemoteOnly"} -> "RemotePreferred"
      [] OTHER -> "Default"

\* Mutant: the two preferred strategies are swapped.
hybrid_preference_swapped(strategy) ==
    CASE strategy = "HybridPreferLocal" -> "RemotePreferred"
      [] strategy = "HybridPreferRemote" -> "LocalPreferred"
      [] strategy = "LocalOnly" -> "LocalRequired"
      [] strategy = "RemoteOnly" -> "RemoteRequired"
      [] OTHER -> "Default"

hybrid_preference(strategy) ==
    CASE strategy = "HybridPreferLocal" -> "LocalPreferred"
      [] strategy = "HybridPreferRemote" -> "RemotePreferred"
      [] strategy = "LocalOnly" -> "LocalRequired"
      [] strategy = "RemoteOnly" -> "RemoteRequired"
      [] OTHER -> "Default"

\* ExecutorPreference::and: a required side wins, two opposite requirements are an error,
\* and DefaultErasePreferences erases every preference that is not a requirement.
ExecutorPreferenceAnd(a, b) ==
    LET requires_local == "LocalRequired" \in {a, b}
        requires_remote == "RemoteRequired" \in {a, b}
    IN  CASE requires_local /\ requires_remote ->
                [tag |-> "Err", error |-> [kind |-> "IncompatibleExecutorPreferences"]]
          [] requires_local /\ ~requires_remote -> [tag |-> "Ok", val |-> "LocalRequired"]
          [] requires_remote /\ ~requires_local -> [tag |-> "Ok", val |-> "RemoteRequired"]
          [] OTHER ->
                IF "DefaultErasePreferences" \in {a, b}
                THEN [tag |-> "Ok", val |-> "DefaultErasePreferences"]
                ELSE IF a = "Default" THEN [tag |-> "Ok", val |-> b]
                ELSE [tag |-> "Ok", val |-> a]

----------------------------------------------------------------------------
(* anyhow::Result<T> and the process environment *)

Ok(x) == [tag |-> "Ok", val |-> x]

Err(e) == [tag |-> "Err", error |-> e]

\* No result is held: no call was made yet, or the caller dropped the last result.
NoCall == [tag |-> "NoCall"]

unwrap_or(opt, default) == IF opt.some THEN opt.val ELSE default

\* buck2_core::is_open_source() and cfg!(fbcode_build), from the build flavour.
is_open_source(e) == e.build = "open_source"

fbcode_build(e) == e.build = "fbcode"

\* EnvHelper<bool>::get_copied: Ok(None) when unset, Ok(Some(b)) when it parses as a
\* bool, an error otherwise.
EnvHelper_get_copied(name, value) ==
    CASE value = "unset" -> Ok(None)
      [] value = "true" -> Ok(Some(TRUE))
      [] value = "false" -> Ok(Some(FALSE))
      [] OTHER -> Err([kind |-> "InvalidEnvVar", var |-> name])

----------------------------------------------------------------------------
(* The executors, cache checkers and cache uploaders the factory builds *)

NoOpCommandOptionalExecutor == [kind |-> "NoOpCommandOptionalExecutor"]

NoOpCacheUploader == [kind |-> "NoOpCacheUploader"]

\* RE::Platform::default(): no properties.
PlatformDefault == [properties |-> << >>]

\* 30GB is the max RE can currently support (in GiB).
DEFAULT_RE_MAX_INPUT_FILE_BYTES == 30

\* Mutant: every kind of local executor gets a host sharing broker of its own.
local_executor_new_own_broker(f, options) ==
    [kind |-> "LocalExecutor",
     host_sharing_broker |-> <<f.host_sharing_broker, options.use_persistent_workers>>,
     worker_pool |-> IF options.use_persistent_workers THEN Some(f.worker_pool) ELSE None]

\* The closure local_executor_new: the worker pool is passed only on request; the
\* host sharing broker is the factory's shared one.
local_executor_new(f, options) ==
    [kind |-> "LocalExecutor",
     host_sharing_broker |-> f.host_sharing_broker,
     worker_pool |-> IF options.use_persistent_workers THEN Some(f.worker_pool) ELSE None]

\* Mutant: the remote cache flag of the config is not looked at.
remote_executor_new_ignoring_remote_cache_enabled(f, options, remote_cache_enabled) ==
    [kind |-> "ReExecutor",
     skip_cache_read |-> f.skip_cache_read,
     skip_cache_write |-> f.skip_cache_write,
     paranoid |-> f.paranoid]

\* The closure remote_executor_new.
remote_executor_new(f, options, remote_cache_enabled) ==
    [kind |-> "ReExecutor",
     skip_cache_read |-> f.skip_cache_read \/ ~remote_cache_enabled,
     skip_cache_write |-> f.skip_cache_write \/ ~remote_cache_enabled,
     paranoid |-> f.paranoid]

\* let disable_caching = DISABLE_CACHING.get_copied()?.unwrap_or(self.skip_cache_read);
\* let disable_caching = disable_caching || (!remote_cache_enabled && !remote_dep_file_cache_enabled);
disable_caching_new(f, override, ex) ==
    LET disable_caching == unwrap_or(override, f.skip_cache_read)
    IN  disable_caching
        \/ (~ex.remote_cache_enabled /\ ~ex.remote_dep_file_cache_enabled)

\* Mutant: the only_remote_dep_file_cache branch is lost.
cache_checker_new_always_action_cache(f, ex, disable_caching, only_remote_dep_file_cache) ==
    IF disable_caching THEN NoOpCommandOptionalExecutor
    ELSE [kind |-> "ActionCacheChecker",
          paranoid |-> f.paranoid,
          remote_dep_file_checker |->
              IF ex.remote_dep_file_cache_enabled
              THEN [kind |-> "RemoteDepFileCacheChecker", paranoid |-> f.paranoid]
              ELSE NoOpCommandOptionalExecutor]

\* Mutant: the dep-file stage is built whether or not the dep-file cache is enabled.
cache_checker_new_always_dep_file(f, ex, disable_caching, only_remote_dep_file_cache) ==
    IF disable_caching THEN NoOpCommandOptionalExecutor
    ELSE LET remote_dep_file_checker ==
                 [kind |-> "RemoteDepFileCacheChecker", paranoid |-> f.paranoid]
         IN  IF only_remote_dep_file_cache THEN remote_dep_file_checker
             ELSE [kind |-> "ActionCacheChecker",
                   paranoid |-> f.paranoid,
                   remote_dep_file_checker |-> remote_dep_file_checker]

\* The closure cache_checker_new.
cache_checker_new(f, ex, disable_caching, only_remote_dep_file_cache) ==
    IF disable_caching THEN NoOpCommandOptionalExecutor
    ELSE LET remote_dep_file_checker ==
                 IF ex.remote_dep_file_cache_enabled
                 THEN [kind |-> "RemoteDepFileCacheChecker", paranoid |-> f.paranoid]
                 ELSE NoOpCommandOptionalExecutor
         IN  IF only_remote_dep_file_cache THEN remote_dep_file_checker
             ELSE [kind |-> "ActionCacheChecker",
                   paranoid |-> f.paranoid,
                   remote_dep_file_checker |-> remote_dep_file_checker]

\* Mutant: the limit of the config is not read, the default is always used.
hybrid_executor_new_default_limit(f, hybrid, remote_cache_enabled, cache_checker) ==
    LET local == local_executor_new(f, hybrid.local)
        remote == remote_executor_new(f, hybrid.remote, remote_cache_enabled)
        executor_preference == hybrid_preference(f.strategy)
        erased == ExecutorPreferenceAnd(executor_preference, "DefaultErasePreferences")
    IN  IF f.paranoid /\ erased.tag = "Err" THEN erased
        ELSE Ok([kind |-> "HybridExecutor",
                 local |-> local,
                 remote |-> IF f.paranoid
                            THEN [kind |-> "StackedExecutor",
                                  optional |-> cache_checker,
                                  fallback |-> remote]
                            ELSE remote,
                 level |-> IF f.paranoid
                           THEN [kind |-> "Full", fallback_on_failure |-> TRUE,
                                 low_pass_filter |-> FALSE]
                           ELSE hybrid.level,
                 executor_preference |->
                     IF f.paranoid THEN erased.val ELSE executor_preference,
                 re_max_input_files_bytes |-> DEFAULT_RE_MAX_INPUT_FILE_BYTES,
                 low_pass_filter |-> f.low_pass_filter])

\* Mutant: the paranoid arm keeps the level declared in the config.
hybrid_executor_new_declared_level(f, hybrid, remote_cache_enabled, cache_checker) ==
    LET re_max_input_files_bytes ==
            unwrap_or(hybrid.remote.re_max_input_files_bytes, DEFAULT_RE_MAX_INPUT_FILE_BYTES)
        local == local_executor_new(f, hybrid.local)
        remote == remote_executor_new(f, hybrid.remote, remote_cache_enabled)
        executor_preference == hybrid_preference(f.strategy)
        erased == ExecutorPreferenceAnd(executor_preference, "DefaultErasePreferences")
    IN  IF f.paranoid /\ erased.tag = "Err" THEN erased
        ELSE Ok([kind |-> "HybridExecutor",
                 local |-> local,
                 remote |-> IF f.paranoid
                            THEN [kind |-> "StackedExecutor",
                                  optional |-> cache_checker,
                                  fallback |-> remote]
                            ELSE remote,
                 level |-> hybrid.level,
                 executor_preference |->
                     IF f.paranoid THEN erased.val ELSE executor_preference,
                 re_max_input_files_bytes |-> re_max_input_files_bytes,
                 low_pass_filter |-> f.low_pass_filter])

\* The Hybrid arm of `match &executor`: Err only when ExecutorPreference::and fails.
hybrid_executor_new(f, hybrid, remote_cache_enabled, cache_checker) ==
    LET re_max_input_files_bytes ==
            unwrap_or(hybrid.remote.re_max_input_files_bytes, DEFAULT_RE_MAX_INPUT_FILE_BYTES)
        local == local_executor_new(f, hybrid.local)
        remote == remote_executor_new(f, hybrid.remote, remote_cache_enabled)
        executor_preference == hybrid_preference(f.strategy)
        erased == ExecutorPreferenceAnd(executor_preference, "DefaultErasePreferences")
    IN  IF f.paranoid
        THEN IF erased.tag = "Err" THEN erased
             ELSE Ok([kind |-> "HybridExecutor",
                      local |-> local,
                      remote |-> [kind |-> "StackedExecutor",
                                  optional |-> cache_checker,
                                  fallback |-> remote],
                      level |-> [kind |-> "Full", fallback_on_failure |-> TRUE,
                                 low_pass_filter |-> FALSE],
                      executor_preference |-> erased.val,
                      re_max_input_files_bytes |-> re_max_input_files_bytes,
                      low_pass_filter |-> f.low_pass_filter])
        ELSE Ok([kind |-> "HybridExecutor",
                 local |-> local,
                 remote |-> remote,
                 level |-> hybrid.level,
                 executor_preference |-> executor_preference,
                 re_max_input_files_bytes |-> re_max_input_files_bytes,
                 low_pass_filter |-> f.low_pass_filter])

\* `let executor: Option<Arc<dyn PreparedCommandExecutor>> = match &executor { .. }`,
\* as a Result<Option<executor>>. cache_checker is what cache_checker_new() returns.
remote_enabled_executor_new(f, ex, cache_checker) ==
    CASE ex.executor.kind = "Local" /\ ~ban_local(f.strategy) ->
            Ok(Some(local_executor_new(f, ex.executor.local)))
      [] ex.executor.kind = "Remote" /\ ~ban_remote(f.strategy) ->
            Ok(Some(remote_executor_new(f, ex.executor.remote, ex.remote_cache_enabled)))
      [] ex.executor.kind = "Hybrid" /\ ~ban_hybrid(f.strategy) ->
            LET hybrid ==
                    hybrid_executor_new(f, ex.executor, ex.remote_cache_enabled, cache_checker)
            IN  IF hybrid.tag = "Err" THEN hybrid ELSE Ok(Some(hybrid.val))
      [] OTHER -> Ok(None)

\* RE::Platform { properties: re_properties.iter().map(..).collect() }
platform_new(re_properties) ==
    [properties |->
        [i \in DOMAIN re_properties |->
            [name |-> re_properties[i][1], value |-> re_properties[i][2]]]]

\* Mutant: the uploader is chosen from cache_upload_behavior alone.
cache_uploader_new_ignoring_disable_caching(cache_upload_behavior, disable_caching, platform) ==
    IF cache_upload_behavior.kind = "Enabled"
    THEN [kind |-> "CacheUploader",
          platform |-> platform,
          max_bytes |-> cache_upload_behavior.max_bytes]
    ELSE NoOpCacheUploader

\* `let cache_uploader = if disable_caching { .. } else if let Enabled { max_bytes } ..`
cache_uploader_new(cache_upload_behavior, disable_caching, platform) ==
    IF disable_caching THEN NoOpCacheUploader
    ELSE IF cache_upload_behavior.kind = "Enabled"
         THEN [kind |-> "CacheUploader",
               platform |-> platform,
               max_bytes |-> cache_upload_behavior.max_bytes]
         ELSE NoOpCacheUploader

----------------------------------------------------------------------------
(* get_command_executor *)

\* The locals of the RemoteEnabled arm, None while the arm has not computed them.
\* cache_checker_new holds what the closure returned when it was called.
NoLocals ==
    [disable_caching |-> None, only_remote_dep_file_cache |-> None, cache_checker_new |-> None]

\* Mutant: the cargo-build path does not look at the strategy.
cargo_build_response_without_ban(f) ==
    Ok([executor |-> local_executor_new(f, LocalExecutorOptionsDefault),
        platform |-> PlatformDefault,
        cache_checker |-> NoOpCommandOptionalExecutor,
        cache_uploader |-> NoOpCacheUploader])

\* The cargo-build path: remote execution and caching are disabled.
cargo_build_response(f) ==
    IF ban_local(f.strategy)
    THEN Err([kind |-> "IncompatibleWithLocalExecutor", strategy |-> f.strategy])
    ELSE Ok([executor |-> local_executor_new(f, LocalExecutorOptionsDefault),
             platform |-> PlatformDefault,
             cache_checker |-> NoOpCommandOptionalExecutor,
             cache_uploader |-> NoOpCacheUploader])

\* The arm Executor::Local of `match &executor_config.executor`: an Option<response>.
local_response(f, local) ==
    IF ban_local(f.strategy) THEN None
    ELSE Some([executor |-> local_executor_new(f, local),
               platform |-> PlatformDefault,
               cache_checker |-> NoOpCommandOptionalExecutor,
               cache_uploader |-> NoOpCacheUploader])

\* Mutant: a response is built even when no executor was selected.
response_map_partial(executor, platform, cache_checker, cache_uploader) ==
    Some([executor |-> IF executor.some THEN executor.val ELSE [kind |-> "None"],
          platform |-> platform,
          cache_checker |-> cache_checker,
          cache_uploader |-> cache_uploader])

\* `executor.map(|executor| CommandExecutorResponse { .. })`
response_map(executor, platform, cache_checker, cache_uploader) ==
    IF executor.some
    THEN Some([executor |-> executor.val,
               platform |-> platform,
               cache_checker |-> cache_checker,
               cache_uploader |-> cache_uploader])
    ELSE None

\* Mutant: the chain is the top-level cache checker under paranoid too.
top_level_cache_checker_without_paranoid(f, chain) == chain

\* let cache_checker = if self.paranoid.is_some() { NoOp } else { cache_checker_new() };
top_level_cache_checker(f, chain) ==
    IF f.paranoid THEN NoOpCommandOptionalExecutor ELSE chain

\* The arm Executor::RemoteEnabled: [response : Result<Option<response>>, locals].
remote_enabled_response(f, e, ex) ==
    LET override == EnvHelper_get_copied("BUCK2_TEST_DISABLE_CACHING", e.DISABLE_CACHING)
        only == EnvHelper_get_copied("BUCK2_TEST_ONLY_REMOTE_DEP_FILE_CACHE",
                                     e.ONLY_REMOTE_DEP_FILE_CACHE)
    IN  IF override.tag = "Err" THEN [response |-> override, locals |-> NoLocals]
        ELSE
        LET disable_caching == disable_caching_new(f, override.val, ex)
        IN  IF only.tag = "Err"
            THEN [response |-> only,
                  locals |-> [NoLocals EXCEPT !.disable_caching = Some(disable_caching)]]
            ELSE
            LET only_remote_dep_file_cache == unwrap_or(only.val, FALSE)
                chain == cache_checker_new(f, ex, disable_caching, only_remote_dep_file_cache)
                executor == remote_enabled_executor_new(f, ex, chain)
                cache_checker == top_level_cache_checker(f, chain)
                platform == platform_new(ex.re_properties)
                cache_uploader ==
                    cache_uploader_new(ex.cache_upload_behavior, disable_caching, platform)
                \* cache_checker_new() runs in the paranoid Hybrid arm and, without
                \* paranoid, for the response's cache_checker
                called == \/ ~f.paranoid
                          \/ ex.executor.kind = "Hybrid" /\ ~ban_hybrid(f.strategy)
                ran == [disable_caching |-> Some(disable_caching),
                        only_remote_dep_file_cache |-> Some(only_remote_dep_file_cache),
                        cache_checker_new |-> None]
            IN  IF executor.tag = "Err" THEN [response |-> executor, locals |-> ran]
                ELSE [response |->
                          Ok(response_map(executor.val, platform, cache_checker, cache_uploader)),
                      locals |->
                          [ran EXCEPT !.cache_checker_new =
                              IF called THEN Some(chain) ELSE None]]

\* `response.with_context(|| format!(.., self.strategy, executor_config))?`
with_context(response, f, config) ==
    IF response.some THEN Ok(response.val)
    ELSE Err([kind |-> "IncompatibleExecutorConfig",
              strategy |-> f.strategy,
              executor_config |-> config])

\* The whole function: [result : Result<response>, locals].
get_command_executor(f, e, config) ==
    IF ~is_open_source(e) /\ ~fbcode_build(e)
    THEN [result |-> cargo_build_response(f), locals |-> NoLocals]
    ELSE LET matched ==
                 IF config.executor.kind = "Local"
                 THEN [response |-> Ok(local_response(f, config.executor.local)),
                       locals |-> NoLocals]
                 ELSE remote_enabled_response(f, e, config.executor)
         IN  IF matched.response.tag = "Err"
             THEN [result |-> matched.response, locals |-> matched.locals]
             ELSE [result |-> with_context(matched.response.val, f, config),
                   locals |-> matched.locals]

----------------------------------------------------------------------------
(* The state machine *)

Factory ==
    [strategy : ExecutionStrategy,
     skip_cache_read : BOOLEAN,
     skip_cache_write : BOOLEAN,
     paranoid : BOOLEAN,
     host_sharing_broker : {"host_sharing_broker"},
     low_pass_filter : {"low_pass_filter"},
     worker_pool : {"worker_pool"}]

Environment ==
    [build : {"open_source", "fbcode", "cargo"},
     DISABLE_CACHING : EnvValue,
     ONLY_REMOTE_DEP_FILE_CACHE : EnvValue]

\* CommandExecutorFactory::new in some process environment; nothing was called yet.
Init ==
    /\ factory \in Factory
    /\ env \in Environment
    /\ WARN = FALSE
    /\ warnings = 0
    /\ executor_config = None
    /\ result = NoCall
    /\ locals = NoLocals
    /\ calls = Unused /\ run = Unused /\ sharing = Unused
    /\ pipeline = Unused /\ daemon = Unused /\ channel = Unused
    /\ cli = Unused

\* Mutant: the warning is not guarded by the OnceLock.
get_or_init_runs_always(initialised) == TRUE

\* WARN.get_or_init(|| tracing::warn!(..)): the closure runs when the OnceLock is not
\* initialised yet.
get_or_init_runs(initialised) == ~initialised

\* One call of get_command_executor, with the WARN.get_or_init of the cargo path.
GetCommandExecutor(config) ==
    /\ result = NoCall
    /\ LET cargo == ~is_open_source(env) /\ ~fbcode_build(env)
           out == get_command_executor(factory, env, config)
       IN  /\ WARN' = (WARN \/ cargo)
           /\ warnings' = IF cargo /\ get_or_init_runs(WARN) THEN warnings + 1 ELSE warnings
           /\ executor_config' = Some(config)
           /\ result' = out.result
           /\ locals' = out.locals
    /\ UNCHANGED <<factory, env>>
    /\ UNCHANGED <<calls, run, sharing, pipeline, daemon, channel, cli>>

\* The caller is done with the result of the call (one call per action).
DropResult ==
    /\ result # NoCall
    /\ executor_config' = None
    /\ result' = NoCall
    /\ locals' = NoLocals
    /\ UNCHANGED <<factory, env, WARN, warnings>>
    /\ UNCHANGED <<calls, run, sharing, pipeline, daemon, channel, cli>>

Next ==
    \/ \E config \in CommandExecutorConfig : GetCommandExecutor(config)
    \/ DropResult

Spec == Init /\ [][Next]_vars

----------------------------------------------------------------------------
(* Vocabulary of the properties *)

\* A call of get_command_executor has returned and its result is held.
Called == result.tag # "NoCall"

\* The executor of the config the call was made with.
CalledExecutor == executor_config.val.executor

\* The call was made with RemoteEnabled { executor: <inner>, .. }.
CalledRemoteEnabled(inner) ==
    /\ Called
    /\ CalledExecutor.kind = "RemoteEnabled"
    /\ CalledExecutor.executor.kind = inner

\* The call was made with Executor::Local(_).
CalledLocal == Called /\ CalledExecutor.kind = "Local"

\* The process is not on the no-remote-access (cargo build) path.
HasRemoteAccess == env.build # "cargo"

\* Both environment overrides are unset or parse as a bool.
OverridesReadable ==
    env.DISABLE_CACHING # "invalid" /\ env.ONLY_REMOTE_DEP_FILE_CACHE # "invalid"

ExecutorKinds == {"LocalExecutor", "ReExecutor", "HybridExecutor"}

CacheCheckerKinds ==
    {"NoOpCommandOptionalExecutor", "RemoteDepFileCacheChecker", "ActionCacheChecker"}

CacheUploaderKinds == {"NoOpCacheUploader", "CacheUploader"}

----------------------------------------------------------------------------
(* Properties *)

\* C1: with strategy NoExecution, ban_local, ban_remote and ban_hybrid are all true and
\* every call of get_command_executor returns an error, whatever the executor config
\* (Local, RemoteEnabled with Local, Remote or Hybrid), the caching flags, the
\* environment and the paranoid setting are.
C1_NoExecutionAlwaysFails ==
    factory.strategy = "NoExecution" =>
        /\ ban_local(factory.strategy)
        /\ ban_remote(factory.strategy)
        /\ ban_hybrid(factory.strategy)
        /\ (Called => result.tag = "Err")

\* C1 witness: NoExecution refused a RemoteEnabled Hybrid config on the dispatch path.
C1_Witness ==
    /\ factory.strategy = "NoExecution"
    /\ HasRemoteAccess /\ OverridesReadable
    /\ CalledRemoteEnabled("Hybrid")
    /\ result.tag = "Err"
    /\ result.error.kind = "IncompatibleExecutorConfig"

\* C2 as stated: with strategy LocalOnly every RemoteEnabled config with inner Remote(_)
\* fails and every Local(_) config yields a response with a local executor.
C2_Original ==
    factory.strategy = "LocalOnly" =>
        /\ (CalledRemoteEnabled("Remote") => result.tag = "Err")
        /\ (CalledLocal => result.tag = "Ok" /\ result.val.executor.kind = "LocalExecutor")

\* C2 amended: with strategy LocalOnly, every RemoteEnabled config with inner Remote(_)
\* fails unless the call takes the no-remote-access path (where it returns a local
\* executor), and every Local(_) config yields a response with a local executor.
C2_LocalOnly ==
    factory.strategy = "LocalOnly" =>
        /\ (CalledRemoteEnabled("Remote") =>
                IF HasRemoteAccess
                THEN result.tag = "Err"
                ELSE result.tag = "Ok" /\ result.val.executor.kind = "LocalExecutor")
        /\ (CalledLocal => result.tag = "Ok" /\ result.val.executor.kind = "LocalExecutor")

\* C2 witness: LocalOnly refused a RemoteEnabled Remote config on the dispatch path.
C2_Witness ==
    /\ factory.strategy = "LocalOnly"
    /\ HasRemoteAccess /\ OverridesReadable
    /\ CalledRemoteEnabled("Remote")
    /\ result.tag = "Err"
    /\ result.error.kind = "IncompatibleExecutorConfig"

\* C3 as stated: with strategy RemoteOnly every Local(_) config fails and every
\* RemoteEnabled config with inner Remote(_) yields a response with a remote executor.
C3_Original ==
    factory.strategy = "RemoteOnly" =>
        /\ (CalledLocal => result.tag = "Err")
        /\ (CalledRemoteEnabled("Remote") =>
                result.tag = "Ok" /\ result.val.executor.kind = "ReExecutor")

\* C3 amended: with strategy RemoteOnly every Local(_) config fails; a RemoteEnabled
\* config with inner Remote(_) yields a response with a remote executor exactly when the
\* call does not take the no-remote-access path and both environment overrides are
\* readable, and fails otherwise.
C3_RemoteOnly ==
    factory.strategy = "RemoteOnly" =>
        /\ (CalledLocal => result.tag = "Err")
        /\ (CalledRemoteEnabled("Remote") =>
                IF HasRemoteAccess /\ OverridesReadable
                THEN result.tag = "Ok" /\ result.val.executor.kind = "ReExecutor"
                ELSE result.tag = "Err")

\* C3 witness: RemoteOnly built a remote executor for a RemoteEnabled Remote config.
C3_Witness ==
    /\ factory.strategy = "RemoteOnly"
    /\ CalledRemoteEnabled("Remote")
    /\ result.tag = "Ok"
    /\ result.val.executor.kind = "ReExecutor"

\* C4 as stated: NoExecution bans local, remote and hybrid; LocalOnly bans remote and not
\* local; RemoteOnly bans local and not remote; ban_hybrid is false only for Default,
\* HybridPreferLocal and HybridPreferRemote.
C4_Original ==
    LET s == factory.strategy
    IN  /\ (s = "NoExecution" => ban_local(s) /\ ban_remote(s) /\ ban_hybrid(s))
        /\ (s = "LocalOnly" => ban_remote(s) /\ ~ban_local(s))
        /\ (s = "RemoteOnly" => ban_local(s) /\ ~ban_remote(s))
        /\ (~ban_hybrid(s) <=> s \in {"Default", "HybridPreferLocal", "HybridPreferRemote"})

\* C4 amended: NoExecution bans local, remote and hybrid; LocalOnly bans remote and not
\* local; RemoteOnly bans local and not remote; ban_hybrid is true only for NoExecution,
\* so it is false for LocalOnly and RemoteOnly as well as for Default, HybridPreferLocal
\* and HybridPreferRemote, and a Hybrid config is served under each of these five.
C4_BanTable ==
    LET s == factory.strategy
    IN  /\ (s = "NoExecution" => ban_local(s) /\ ban_remote(s) /\ ban_hybrid(s))
        /\ (s = "LocalOnly" => ban_remote(s) /\ ~ban_local(s))
        /\ (s = "RemoteOnly" => ban_local(s) /\ ~ban_remote(s))
        /\ (ban_hybrid(s) <=> s = "NoExecution")
        /\ (CalledRemoteEnabled("Hybrid") /\ HasRemoteAccess /\ OverridesReadable =>
                IF s = "NoExecution"
                THEN result.tag = "Err"
                ELSE result.tag = "Ok" /\ result.val.executor.kind = "HybridExecutor")

\* C4 witness: LocalOnly, which bans remote, still serves a Hybrid config.
C4_Witness ==
    /\ factory.strategy = "LocalOnly"
    /\ CalledRemoteEnabled("Hybrid")
    /\ result.tag = "Ok"
    /\ result.val.executor.kind = "HybridExecutor"
    /\ result.val.executor.executor_preference = "LocalRequired"

\* C5: a call returns a response with executor, platform, cache_checker and
\* cache_uploader all present, or an error, and nothing in between; when the dispatch
\* on the executor config finds the config's path banned, the error carries the
\* factory's strategy and the whole executor config.
C5_CompleteOrError ==
    Called =>
        /\ result.tag \in {"Ok", "Err"}
        /\ (result.tag = "Ok" =>
                /\ DOMAIN result.val = {"executor", "platform", "cache_checker", "cache_uploader"}
                /\ result.val.executor.kind \in ExecutorKinds
                /\ result.val.cache_checker.kind \in CacheCheckerKinds
                /\ result.val.cache_uploader.kind \in CacheUploaderKinds
                /\ DOMAIN result.val.platform = {"properties"})
        /\ LET s == factory.strategy
               banned ==
                   \/ CalledLocal /\ s \in {"RemoteOnly", "NoExecution"}
                   \/ CalledRemoteEnabled("Local") /\ s \in {"RemoteOnly", "NoExecution"}
                   \/ CalledRemoteEnabled("Remote") /\ s \in {"LocalOnly", "NoExecution"}
                   \/ CalledRemoteEnabled("Hybrid") /\ s = "NoExecution"
               dispatched ==
                   HasRemoteAccess /\ (CalledExecutor.kind = "RemoteEnabled" => OverridesReadable)
           IN  dispatched /\ banned =>
                   /\ result.tag = "Err"
                   /\ result.error.kind = "IncompatibleExecutorConfig"
                   /\ result.error.strategy = factory.strategy
                   /\ result.error.executor_config = executor_config.val

\* C5 witness: RemoteOnly refused a RemoteEnabled Local config and the error names both.
C5_Witness ==
    /\ factory.strategy = "RemoteOnly"
    /\ HasRemoteAccess /\ OverridesReadable
    /\ CalledRemoteEnabled("Local")
    /\ result.tag = "Err"
    /\ result.error.strategy = "RemoteOnly"
    /\ result.error.executor_config = executor_config.val

\* C6 as stated: for a RemoteEnabled config, disable_caching is true exactly when the
\* BUCK2_TEST_DISABLE_CACHING override is true, or the factory's skip_cache_read is true,
\* or remote_cache_enabled and remote_dep_file_cache_enabled are both false; so
\* skip_cache_read = true disables caching whatever the override is.
C6_DisableCaching ==
    locals.disable_caching.some =>
        locals.disable_caching.val =
            (\/ env.DISABLE_CACHING = "true"
             \/ factory.skip_cache_read
             \/ (~CalledExecutor.remote_cache_enabled
                 /\ ~CalledExecutor.remote_dep_file_cache_enabled))

C8_Original ==
    Called /\ result.tag = "Ok" =>
        LET uploader == result.val.cache_uploader
            disable_caching == locals.disable_caching.some /\ locals.disable_caching.val
        IN  IF CalledExecutor.kind = "Local"
            THEN uploader.kind = "NoOpCacheUploader"
            ELSE IF disable_caching \/ CalledExecutor.cache_upload_behavior.kind = "Disabled"
                 THEN uploader.kind = "NoOpCacheUploader"
                 ELSE /\ uploader.kind = "CacheUploader"
                      /\ uploader.max_bytes = CalledExecutor.cache_upload_behavior.max_bytes

\* C8 amended: for a RemoteEnabled config that yields a response on the dispatch path
\* (the no-remote-access path not taken), cache_uploader is the no-op uploader when
\* disable_caching is true or cache_upload_behavior is Disabled, and otherwise a
\* CacheUploader bounded by the configured max_bytes; for a Local config, and for every
\* config on the no-remote-access path, it is the no-op uploader.
C8_CacheUploader ==
    Called /\ result.tag = "Ok" =>
        LET uploader == result.val.cache_uploader
        IN  IF CalledExecutor.kind = "Local" \/ ~HasRemoteAccess
            THEN uploader.kind = "NoOpCacheUploader"
            ELSE /\ locals.disable_caching.some
                 /\ IF \/ locals.disable_caching.val
                       \/ CalledExecutor.cache_upload_behavior.kind = "Disabled"
                    THEN uploader.kind = "NoOpCacheUploader"
                    ELSE /\ uploader.kind = "CacheUploader"
                         /\ uploader.max_bytes = CalledExecutor.cache_upload_behavior.max_bytes

\* C8 witness: caching enabled and uploads Enabled { max_bytes: 2000 } gave a
\* CacheUploader bounded by 2000.
C8_Witness ==
    /\ Called /\ result.tag = "Ok"
    /\ CalledExecutor.kind = "RemoteEnabled"
    /\ locals.disable_caching.some
    /\ ~locals.disable_caching.val
    /\ CalledExecutor.cache_upload_behavior = [kind |-> "Enabled", max_bytes |-> 2000]
    /\ result.val.cache_uploader.kind = "CacheUploader"
    /\ result.val.cache_uploader.max_bytes = 2000

\* What C9 says of the executor built for a Hybrid config: under paranoid, a
\* HybridExecutor on a StackedExecutor (the cache-checker chain first, the remote executor
\* as fallback), the strategy's preference combined with DefaultErasePreferences, and level
\* Full { fallback_on_failure: true, low_pass_filter: false }; without paranoid, the plain
\* remote executor and the declared level.
C9_HybridAsClaimed ==
    /\ result.tag = "Ok"
    /\ LET hybrid == result.val.executor
           declared == CalledExecutor.executor
       IN  /\ hybrid.kind = "HybridExecutor"
           /\ hybrid.local.kind = "LocalExecutor"
           /\ IF factory.paranoid
              THEN /\ hybrid.remote.kind = "StackedExecutor"
                   /\ locals.cache_checker_new.some
                   /\ hybrid.remote.optional = locals.cache_checker_new.val
                   /\ hybrid.remote.fallback.kind = "ReExecutor"
                   /\ hybrid.executor_preference =
                          ExecutorPreferenceAnd(hybrid_preference(factory.strategy),
                                                "DefaultErasePreferences").val
                   /\ hybrid.level = [kind |-> "Full", fallback_on_failure |-> TRUE,
                                      low_pass_filter |-> FALSE]
              ELSE /\ hybrid.remote.kind = "ReExecutor"
                   /\ hybrid.executor_preference = hybrid_preference(factory.strategy)
                   /\ hybrid.level = declared.level

\* C9 as stated: for every RemoteEnabled Hybrid config the strategy does not ban, the
\* factory builds the executor C9 describes.
C9_Original ==
    CalledRemoteEnabled("Hybrid") /\ factory.strategy # "NoExecution" => C9_HybridAsClaimed

\* C9 amended: for every RemoteEnabled Hybrid config the strategy does not ban, when the
\* call does not take the no-remote-access path and both environment overrides are
\* readable, the factory builds the executor C9 describes.
C9_ParanoidHybrid ==
    /\ CalledRemoteEnabled("Hybrid")
    /\ factory.strategy # "NoExecution"
    /\ HasRemoteAccess
    /\ OverridesReadable
    => C9_HybridAsClaimed

\* C9 witness: under paranoid a config declaring level Limited got a stacked remote
\* side and the forced level.
C9_Witness ==
    /\ CalledRemoteEnabled("Hybrid")
    /\ factory.paranoid
    /\ factory.strategy = "HybridPreferRemote"
    /\ CalledExecutor.executor.level = [kind |-> "Limited"]
    /\ result.tag = "Ok"
    /\ result.val.executor.kind = "HybridExecutor"
    /\ result.val.executor.remote.kind = "StackedExecutor"
    /\ result.val.executor.remote.optional.kind = "ActionCacheChecker"
    /\ result.val.executor.level.kind = "Full"

\* C10: on the no-remote-access path the executor config is ignored: the call fails when
\* the strategy bans local execution (RemoteOnly, NoExecution), and otherwise returns a
\* local executor built from the default LocalExecutorOptions (no worker pool), an empty
\* platform, the no-op cache checker and the no-op cache uploader.
C10_NoRemoteAccess ==
    Called /\ ~HasRemoteAccess =>
        IF factory.strategy \in {"RemoteOnly", "NoExecution"}
        THEN result.tag = "Err" /\ result.error.strategy = factory.strategy
        ELSE /\ result.tag = "Ok"
             /\ result.val.executor.kind = "LocalExecutor"
             /\ ~result.val.executor.worker_pool.some
             /\ result.val.platform.properties = << >>
             /\ result.val.cache_checker.kind = "NoOpCommandOptionalExecutor"
             /\ result.val.cache_uploader.kind = "NoOpCacheUploader"

\* C10 witness: strategy Default and a Local config asking for persistent workers, on the
\* no-remote-access path: a local executor without the worker pool and no caching.
C10_Witness ==
    /\ ~HasRemoteAccess
    /\ factory.strategy = "Default"
    /\ CalledLocal
    /\ CalledExecutor.local.use_persistent_workers
    /\ result.tag = "Ok"
    /\ ~result.val.executor.worker_pool.some
    /\ result.val.cache_checker.kind = "NoOpCommandOptionalExecutor"
    /\ result.val.cache_uploader.kind = "NoOpCacheUploader"

\* The preference C12 derives from each strategy.
C12_PreferenceTable ==
    [s \in ExecutionStrategy |->
        CASE s = "HybridPreferLocal" -> "LocalPreferred"
          [] s = "HybridPreferRemote" -> "RemotePreferred"
          [] s = "LocalOnly" -> "LocalRequired"
          [] s = "RemoteOnly" -> "RemoteRequired"
          [] OTHER -> "Default"]

\* The call returned a response whose executor is a HybridExecutor.
BuiltHybrid == result.tag = "Ok" /\ result.val.executor.kind = "HybridExecutor"

\* C12 as stated: a RemoteEnabled Hybrid config yields a HybridExecutor exactly when the
\* strategy does not ban hybrid, and that executor carries the factory's LowPassFilter
\* and the preference derived from the strategy.
C12_Original ==
    CalledRemoteEnabled("Hybrid") =>
        /\ (BuiltHybrid <=> factory.strategy # "NoExecution")
        /\ (BuiltHybrid =>
                /\ result.val.executor.low_pass_filter = factory.low_pass_filter
                /\ result.val.executor.executor_preference =
                       C12_PreferenceTable[factory.strategy])

\* C12 amended: when the call does not take the no-remote-access path and both
\* environment overrides are readable, a RemoteEnabled Hybrid config yields a
\* HybridExecutor exactly when the strategy does not ban hybrid; that executor carries the
\* factory's LowPassFilter, and its preference is the one derived from the strategy
\* without paranoid, and that preference combined with DefaultErasePreferences with it.
C12_HybridPreference ==
    CalledRemoteEnabled("Hybrid") /\ HasRemoteAccess /\ OverridesReadable =>
        /\ (BuiltHybrid <=> factory.strategy # "NoExecution")
        /\ (BuiltHybrid =>
                /\ result.val.executor.low_pass_filter = factory.low_pass_filter
                /\ result.val.executor.executor_preference =
                       IF factory.paranoid
                       THEN ExecutorPreferenceAnd(C12_PreferenceTable[factory.strategy],
                                                  "DefaultErasePreferences").val
                       ELSE C12_PreferenceTable[factory.strategy])

\* C12 witness: HybridPreferLocal without paranoid built a HybridExecutor preferring local.
C12_Witness ==
    /\ CalledRemoteEnabled("Hybrid")
    /\ factory.strategy = "HybridPreferLocal"
    /\ ~factory.paranoid
    /\ BuiltHybrid
    /\ result.val.executor.executor_preference = "LocalPreferred"
    /\ result.val.executor.low_pass_filter = factory.low_pass_filter

----------------------------------------------------------------------------
(* WarnSpec: concurrent calls of get_command_executor and the static WARN *)

\* Threads calling get_command_executor, and calls each of them makes.
NumThreads == 2

MaxCalls == 2

Threads == 1 .. NumThreads

\* The configs the threads call with (the cargo-build path does not look at them).
WarnConfigs ==
    {[executor |-> [kind |-> "Local", local |-> LocalExecutorOptionsDefault]],
     [executor |-> [kind |-> "RemoteEnabled",
                    executor |-> [kind |-> "Remote",
                                  remote |-> [re_max_input_files_bytes |-> None]],
                    re_properties |-> << <<"platform", "mac">>, <<"subplatform", "any">> >>,
                    cache_upload_behavior |-> [kind |-> "Disabled"],
                    remote_cache_enabled |-> TRUE,
                    remote_dep_file_cache_enabled |-> FALSE]]}

WarnInit ==
    /\ factory \in {f \in Factory : ~f.skip_cache_read /\ ~f.skip_cache_write /\ ~f.paranoid}
    /\ env \in {e \in Environment :
                    e.DISABLE_CACHING = "unset" /\ e.ONLY_REMOTE_DEP_FILE_CACHE = "unset"}
    /\ WARN = FALSE
    /\ warnings = 0
    /\ executor_config = None
    /\ result = NoCall
    /\ locals = NoLocals
    /\ calls = [t \in Threads |-> [pc |-> "idle", returned |-> 0, last |-> "none"]]
    /\ run = Unused /\ sharing = Unused
    /\ pipeline = Unused /\ daemon = Unused /\ channel = Unused
    /\ cli = Unused

WarnUnchanged ==
    UNCHANGED <<factory, env, executor_config, result, locals,
                run, sharing, pipeline, daemon, channel, cli>>

\* Thread t enters get_command_executor: on the cargo-build path it reaches
\* WARN.get_or_init; otherwise the call touches no shared state and returns.
WarnEnter(t, config) ==
    /\ calls[t].pc = "idle"
    /\ calls[t].returned < MaxCalls
    /\ IF ~is_open_source(env) /\ ~fbcode_build(env)
       THEN calls' = [calls EXCEPT ![t].pc = "get_or_init"]
       ELSE calls' = [calls EXCEPT
                         ![t].returned = @ + 1,
                         ![t].last = get_command_executor(factory, env, config).result.tag]
    /\ UNCHANGED <<WARN, warnings>>
    /\ WarnUnchanged

\* WARN.get_or_init: a thread waits while another one runs the closure; it runs the
\* closure itself when the OnceLock is not initialised, and passes otherwise.
WarnGetOrInit(t) ==
    /\ calls[t].pc = "get_or_init"
    /\ \A u \in Threads : calls[u].pc # "in_closure"
    /\ calls' = [calls EXCEPT
                    ![t].pc = IF get_or_init_runs(WARN) THEN "in_closure" ELSE "ban_check"]
    /\ UNCHANGED <<WARN, warnings>>
    /\ WarnUnchanged

\* The closure: tracing::warn!(..); its return initialises the OnceLock.
WarnClosure(t) ==
    /\ calls[t].pc = "in_closure"
    /\ warnings' = warnings + 1
    /\ WARN' = TRUE
    /\ calls' = [calls EXCEPT ![t].pc = "ban_check"]
    /\ WarnUnchanged

\* The rest of the cargo-build path: the ban check and the return.
WarnReturn(t) ==
    /\ calls[t].pc = "ban_check"
    /\ calls' = [calls EXCEPT
                    ![t].pc = "idle",
                    ![t].returned = @ + 1,
                    ![t].last = cargo_build_response(factory).tag]
    /\ UNCHANGED <<WARN, warnings>>
    /\ WarnUnchanged

WarnNext ==
    \/ \E t \in Threads, config \in WarnConfigs : WarnEnter(t, config)
    \/ \E t \in Threads : WarnGetOrInit(t)
    \/ \E t \in Threads : WarnClosure(t)
    \/ \E t \in Threads : WarnReturn(t)

WarnSpec == WarnInit /\ [][WarnNext]_vars

\* Thread t has a call on the no-remote-access path that is past WARN.get_or_init.
PastGetOrInit(t) ==
    ~HasRemoteAccess /\ (calls[t].pc = "ban_check" \/ calls[t].returned > 0)

\* C11: over every interleaving of the calls that take the no-remote-access path, the
\* warning is emitted exactly once: never twice, by the first call to reach
\* WARN.get_or_init (no call is past it while the closure runs), and it has been emitted
\* as soon as any call is past get_or_init, also when that call fails because local
\* execution is banned; calls on the dispatch path emit none.
C11_WarnOnce ==
    /\ warnings <= 1
    /\ (warnings = 1 <=> WARN)
    /\ (HasRemoteAccess => warnings = 0)
    /\ \A t \in Threads :
          /\ (PastGetOrInit(t) => warnings = 1)
          /\ (calls[t].pc = "in_closure" =>
                  /\ warnings = 0
                  /\ \A u \in Threads : ~PastGetOrInit(u) /\ (u # t => calls[u].pc # "in_closure"))

\* C11 witness: every thread made all its calls on the no-remote-access path under
\* RemoteOnly, each call failed, and one warning was emitted.
C11_Witness ==
    /\ ~HasRemoteAccess
    /\ factory.strategy = "RemoteOnly"
    /\ \A t \in Threads :
          calls[t].pc = "idle" /\ calls[t].returned = MaxCalls /\ calls[t].last = "Err"
    /\ warnings = 1

----------------------------------------------------------------------------
(* HybridSpec: one action on a HybridExecutor the factory built *)

\* input_files_bytes of the action's command, in GiB: below every limit, between the
\* limit of the configs and the default, above the default.
InputFilesBytes == {0, 2, 31}

\* The RemoteEnabled Hybrid configs the executor is built from.
HybridConfigs ==
    {c \in CommandExecutorConfig :
        /\ c.executor.kind = "RemoteEnabled"
        /\ c.executor.executor.kind = "Hybrid"
        /\ c.executor.cache_upload_behavior.kind = "Disabled"
        /\ c.executor.remote_cache_enabled
        /\ ~c.executor.remote_dep_file_cache_enabled}

\* The other side.
OtherExecutor(side) == IF side = "local" THEN "remote" ELSE "local"

\* The input-size ceiling: above re_max_input_files_bytes the remote side is not used.
hybrid_remote_allowed(executor, input_files_bytes) ==
    input_files_bytes <= executor.re_max_input_files_bytes

\* Start: the executors that may be tried first, from the preference; Default may
\* consult the LowPassFilter and start on either side; above the ceiling the decision
\* degrades to local-only.
hybrid_primary(executor, input_files_bytes) ==
    LET preference == executor.executor_preference
    IN  IF ~hybrid_remote_allowed(executor, input_files_bytes) THEN {"local"}
        ELSE CASE preference \in {"LocalRequired", "LocalPreferred"} -> {"local"}
               [] preference \in {"RemoteRequired", "RemotePreferred"} -> {"remote"}
               [] OTHER -> {"local", "remote"}

\* After a failure of the primary: whether the other executor is attempted.
hybrid_falls_back(executor, input_files_bytes, primary) ==
    /\ executor.executor_preference \notin {"LocalRequired", "RemoteRequired"}
    /\ executor.level.kind = "Full"
    /\ executor.level.fallback_on_failure
    /\ (OtherExecutor(primary) = "remote" => hybrid_remote_allowed(executor, input_files_bytes))

HybridInit ==
    /\ factory \in {f \in Factory :
                       /\ ~f.skip_cache_read /\ ~f.skip_cache_write
                       /\ ~ban_hybrid(f.strategy)}
    /\ env = [build |-> "open_source", DISABLE_CACHING |-> "unset",
              ONLY_REMOTE_DEP_FILE_CACHE |-> "unset"]
    /\ WARN = FALSE
    /\ warnings = 0
    /\ \E config \in HybridConfigs :
          LET out == get_command_executor(factory, env, config)
          IN  /\ executor_config = Some(config)
              /\ result = out.result
              /\ locals = out.locals
    /\ \E bytes \in InputFilesBytes :
          run = [executor |-> result.val.executor,
                 input_files_bytes |-> bytes,
                 state |-> "Start",
                 attempts |-> << >>,
                 returned |-> None]
    /\ calls = Unused /\ sharing = Unused
    /\ pipeline = Unused /\ daemon = Unused /\ channel = Unused
    /\ cli = Unused

HybridUnchanged ==
    UNCHANGED <<factory, env, WARN, warnings, executor_config, result, locals,
                calls, sharing, pipeline, daemon, channel, cli>>

\* Start -> Attempt primary.
HybridStart(side) ==
    /\ run.state = "Start"
    /\ side \in hybrid_primary(run.executor, run.input_files_bytes)
    /\ run' = [run EXCEPT !.state = "AttemptPrimary", !.attempts = <<[side |-> side]>>]
    /\ HybridUnchanged

\* The primary executor returns: success is Done; a failure is Failed, or leads to the
\* attempt of the other executor.
HybridPrimaryReturns(outcome) ==
    /\ run.state = "AttemptPrimary"
    /\ LET primary == run.attempts[1].side
           attempt == [side |-> primary, outcome |-> outcome]
       IN  IF outcome = "success"
           THEN run' = [run EXCEPT !.state = "Done",
                                   !.attempts = <<attempt>>,
                                   !.returned = Some(attempt)]
           ELSE IF hybrid_falls_back(run.executor, run.input_files_bytes, primary)
                THEN run' = [run EXCEPT !.state = "AttemptSecondary",
                                        !.attempts = <<attempt>>]
                ELSE run' = [run EXCEPT !.state = "Failed",
                                        !.attempts = <<attempt>>,
                                        !.returned = Some(attempt)]
    /\ HybridUnchanged

\* Attempt secondary: the other executor runs and its result is terminal.
HybridSecondaryReturns(outcome) ==
    /\ run.state = "AttemptSecondary"
    /\ LET attempt == [side |-> OtherExecutor(run.attempts[1].side), outcome |-> outcome]
       IN  run' = [run EXCEPT !.state = IF outcome = "success" THEN "Done" ELSE "Failed",
                              !.attempts = Append(@, attempt),
                              !.returned = Some(attempt)]
    /\ HybridUnchanged

HybridNext ==
    \/ \E side \in {"local", "remote"} : HybridStart(side)
    \/ \E outcome \in {"success", "failure"} : HybridPrimaryReturns(outcome)
    \/ \E outcome \in {"success", "failure"} : HybridSecondaryReturns(outcome)

HybridSpec == HybridInit /\ [][HybridNext]_vars

(* Vocabulary of the hybrid claims *)
HybridTerminal == run.state \in {"Done", "Failed"}
PrimaryFailed == Len(run.attempts) >= 1 /\ HybridTerminal /\ run.attempts[1].outcome = "failure"
SecondaryAttempted == Len(run.attempts) = 2 \/ run.state = "AttemptSecondary"
AttemptedSides == {run.attempts[i].side : i \in 1 .. Len(run.attempts)}
DeclaredHybrid == executor_config.val.executor.executor
\* The level the hybrid executor runs under: the declared one, Full with fallback under
\* paranoid.
EffectiveLevel ==
    IF factory.paranoid
    THEN [kind |-> "Full", fallback_on_failure |-> TRUE, low_pass_filter |-> FALSE]
    ELSE DeclaredHybrid.level
FallbackOnFailure == EffectiveLevel.kind = "Full" /\ EffectiveLevel.fallback_on_failure
RequiredPreference == factory.strategy \in {"LocalOnly", "RemoteOnly"}
\* The limit the hybrid executor is given.
DeclaredLimit ==
    IF DeclaredHybrid.remote.re_max_input_files_bytes.some
    THEN DeclaredHybrid.remote.re_max_input_files_bytes.val
    ELSE DEFAULT_RE_MAX_INPUT_FILE_BYTES
Oversize == run.input_files_bytes > DeclaredLimit
PrimaryFailureReturned ==
    /\ run.state = "Failed"
    /\ Len(run.attempts) = 1
    /\ run.returned = Some(run.attempts[1])
SecondaryResultReturned ==
    /\ Len(run.attempts) = 2
    /\ run.attempts[2].side = OtherExecutor(run.attempts[1].side)
    /\ run.returned = Some(run.attempts[2])
    /\ run.state = (IF run.attempts[2].outcome = "success" THEN "Done" ELSE "Failed")

\* C13 as stated: after a failure of the primary, under Full{fallback_on_failure: true}
\* the secondary is attempted and its result is returned, under Limited or
\* fallback_on_failure: false the failure of the primary is returned and there is no
\* secondary attempt; at most two attempts are made.
C13_Original ==
    /\ Len(run.attempts) <= 2
    /\ PrimaryFailed =>
          IF FallbackOnFailure THEN SecondaryResultReturned ELSE PrimaryFailureReturned

\* C13 amended: the secondary is attempted after a failure of the primary exactly under
\* Full{fallback_on_failure: true} with a preference that is not Required and, where the
\* secondary is the remote executor, inputs within the limit; its result is then the one
\* returned. In every other case the failure of the primary is returned and the
\* secondary is never attempted. At most two attempts are made.
C13_HybridFallback ==
    /\ Len(run.attempts) <= 2
    /\ run.state = "Start" <=> run.attempts = << >>
    /\ run.returned.some <=> HybridTerminal
    /\ SecondaryAttempted =>
          /\ FallbackOnFailure /\ ~RequiredPreference /\ ~Oversize
          /\ run.attempts[1].outcome = "failure"
    /\ PrimaryFailed =>
          IF FallbackOnFailure /\ ~RequiredPreference /\ ~Oversize
          THEN SecondaryResultReturned
          ELSE PrimaryFailureReturned

\* The remote primary failed under a declared Full{fallback_on_failure: true}, the local
\* secondary ran and its result was returned.
C13_Witness ==
    /\ PrimaryFailed /\ FallbackOnFailure /\ ~factory.paranoid
    /\ Len(run.attempts) = 2
    /\ run.attempts[1].side = "remote"
    /\ run.returned = Some([side |-> "local", outcome |-> "success"])

\* C14: under strategy LocalOnly or RemoteOnly (preference LocalRequired or
\* RemoteRequired) only one executor is ever attempted, and its failure is terminal and
\* returned, whatever the level.
C14_RequiredIsTerminal ==
    RequiredPreference =>
        /\ run.executor.executor_preference =
              (IF factory.strategy = "LocalOnly" THEN "LocalRequired" ELSE "RemoteRequired")
        /\ ~SecondaryAttempted
        /\ (Len(run.attempts) = 1 /\ run.state # "AttemptPrimary"
            /\ run.attempts[1].outcome = "failure") => PrimaryFailureReturned

\* A required remote executor failed under Full{fallback_on_failure: true}.
C14_Witness ==
    /\ factory.strategy = "RemoteOnly"
    /\ FallbackOnFailure /\ ~Oversize
    /\ run.state = "Failed"
    /\ run.attempts = <<[side |-> "remote", outcome |-> "failure"]>>

\* C15: the limit of the hybrid executor is the config's re_max_input_files_bytes when
\* set, else DEFAULT_RE_MAX_INPUT_FILE_BYTES; an action whose inputs exceed it never
\* runs on the remote executor.
C15_InputSizeCeiling ==
    /\ run.executor.re_max_input_files_bytes = DeclaredLimit
    /\ Oversize => "remote" \notin AttemptedSides

\* Inputs above a configured limit and below the default, remote preferred, ran locally.
CeilingConfigured ==
    /\ DeclaredHybrid.remote.re_max_input_files_bytes.some
    /\ run.input_files_bytes < DEFAULT_RE_MAX_INPUT_FILE_BYTES
C15_Witness ==
    /\ Oversize /\ CeilingConfigured
    /\ factory.strategy \in {"HybridPreferRemote", "RemoteOnly"}
    /\ HybridTerminal
    /\ AttemptedSides = {"local"}

----------------------------------------------------------------------------
(* BrokerSpec: the HostSharingBroker under the local executors of one factory *)

\* The configured capacity of a host sharing broker.
Capacity == 3

\* The concurrent actions are the threads of the runtime.
Actions == Threads

\* The local executors the factory creates, one per LocalExecutorOptions.
LocalExecutors(f, e) ==
    [workers \in BOOLEAN |->
        get_command_executor(f, e,
            [executor |-> [kind |-> "Local",
                           local |-> [use_persistent_workers |-> workers]]]).result.val.executor]

\* The brokers behind a family of executors.
Brokers(executors) == {executors[x].host_sharing_broker : x \in DOMAIN executors}

RECURSIVE SumOfWeights(_, _)
\* The total weight of the permits the actions of `set` hold.
SumOfWeights(permits, set) ==
    IF set = {} THEN 0
    ELSE LET t == CHOOSE x \in set : TRUE
         IN  (IF permits[t].pc = "holding" THEN permits[t].weight ELSE 0)
             + SumOfWeights(permits, set \ {t})

BrokerInit ==
    /\ factory \in {f \in Factory :
                       /\ ~f.skip_cache_read /\ ~f.skip_cache_write /\ ~f.paranoid
                       /\ ~ban_local(f.strategy)}
    /\ env = [build |-> "open_source", DISABLE_CACHING |-> "unset",
              ONLY_REMOTE_DEP_FILE_CACHE |-> "unset"]
    /\ WARN = FALSE
    /\ warnings = 0
    /\ executor_config = None
    /\ result = NoCall
    /\ locals = NoLocals
    /\ LET executors == LocalExecutors(factory, env)
       IN  sharing = [executors |-> executors,
                      free |-> [b \in Brokers(executors) |-> Capacity],
                      waiters |-> [b \in Brokers(executors) |-> << >>],
                      permits |-> [t \in Actions |->
                                      [pc |-> "idle", weight |-> 0, broker |-> "none"]]]
    /\ calls = Unused /\ run = Unused
    /\ pipeline = Unused /\ daemon = Unused /\ channel = Unused
    /\ cli = Unused

BrokerUnchanged ==
    UNCHANGED <<factory, env, WARN, warnings, executor_config, result, locals,
                calls, run, pipeline, daemon, channel, cli>>

\* LocalExecutor::execute starts: acquire(weight) on the broker of the executor; the
\* action joins the waiters of the broker.
BrokerAcquire(t, workers, weight) ==
    /\ sharing.permits[t].pc = "idle"
    /\ LET broker == sharing.executors[workers].host_sharing_broker
       IN  sharing' = [sharing EXCEPT
                          !.permits[t] = [pc |-> "waiting", weight |-> weight,
                                          broker |-> broker],
                          !.waiters[broker] = Append(@, t)]
    /\ BrokerUnchanged

\* The first waiter gets its permit once its weight fits; until then it and the
\* waiters behind it stay suspended.
BrokerGrant(t) ==
    /\ sharing.permits[t].pc = "waiting"
    /\ LET broker == sharing.permits[t].broker
       IN  /\ Head(sharing.waiters[broker]) = t
           /\ sharing.permits[t].weight <= sharing.free[broker]
           /\ sharing' = [sharing EXCEPT
                             !.permits[t].pc = "holding",
                             !.waiters[broker] = Tail(@),
                             !.free[broker] = @ - sharing.permits[t].weight]
    /\ BrokerUnchanged

\* The scope of the permit ends (the command terminated or was cancelled): its weight
\* goes back to the broker.
BrokerRelease(t) ==
    /\ sharing.permits[t].pc = "holding"
    /\ LET broker == sharing.permits[t].broker
       IN  sharing' = [sharing EXCEPT
                          !.permits[t] = [pc |-> "idle", weight |-> 0, broker |-> "none"],
                          !.free[broker] = @ + sharing.permits[t].weight]
    /\ BrokerUnchanged

BrokerNext ==
    \/ \E t \in Actions, workers \in BOOLEAN, weight \in 1 .. Capacity :
          BrokerAcquire(t, workers, weight)
    \/ \E t \in Actions : BrokerGrant(t)
    \/ \E t \in Actions : BrokerRelease(t)

BrokerSpec == BrokerInit /\ [][BrokerNext]_vars

(* Vocabulary of the broker claim *)
Holders(broker) ==
    {t \in Actions : sharing.permits[t].pc = "holding" /\ sharing.permits[t].broker = broker}
HeldWeight == SumOfWeights(sharing.permits, Actions)
BrokerConserved ==
    \A b \in DOMAIN sharing.free :
        /\ sharing.free[b] >= 0
        /\ sharing.free[b] + SumOfWeights(sharing.permits, Holders(b)) = Capacity
WaitersSuspended ==
    \A t \in Actions :
        sharing.permits[t].pc = "waiting" <=>
            \E b \in DOMAIN sharing.waiters :
                /\ Len(SelectSeq(sharing.waiters[b], LAMBDA x : x = t)) = 1
                /\ b = sharing.permits[t].broker
GrantedOnlyWhenFits ==
    \A t \in Actions :
        (sharing.permits[t].pc # "holding" /\ sharing'.permits[t].pc = "holding") =>
            /\ sharing.permits[t].pc = "waiting"
            /\ sharing.permits[t].weight <= Capacity - HeldWeight
            /\ sharing'.permits[t].weight = sharing.permits[t].weight
ReleasedOnce ==
    \A t \in Actions :
        (sharing.permits[t].pc = "holding" /\ sharing'.permits[t].pc # "holding") =>
            /\ sharing'.permits[t].pc = "idle"
            /\ HeldWeight' = HeldWeight - sharing.permits[t].weight
            /\ \A b \in DOMAIN sharing.free :
                  sharing'.free[b] =
                      sharing.free[b]
                      + (IF b = sharing.permits[t].broker
                         THEN sharing.permits[t].weight ELSE 0)

\* C16: over all local executors of the factory the weights of the permits held at one
\* time never exceed the capacity; a waiter is granted a permit only when its weight fits
\* in what is free and stays suspended until then; a release returns the weight of the
\* permit to the broker once.
C16_BrokerCapacity ==
    /\ [](HeldWeight <= Capacity /\ BrokerConserved /\ WaitersSuspended)
    /\ [][GrantedOnlyWhenFits /\ ReleasedOnce]_vars

\* The broker is full with permits taken through two different executors, and a third
\* acquirer, or one that does not fit, is suspended.
C16_Witness ==
    /\ HeldWeight = Capacity
    /\ \E t, u \in Actions :
          /\ sharing.permits[t].pc = "holding"
          /\ sharing.permits[u].pc = "waiting"
          /\ sharing.permits[u].broker = sharing.permits[t].broker
    /\ sharing.executors[TRUE] # sharing.executors[FALSE]

----------------------------------------------------------------------------
(* PipelineSpec: the actions driven from one CommandExecutorResponse *)

\* The steps of one action, in the order the response's triple is consumed.
PipelineSteps ==
    <<"cache_check", "miss", "execute", "success", "upload", "uploaded">>

PipelineInit ==
    /\ factory \in {f \in Factory : ~f.skip_cache_write /\ ~f.paranoid}
    /\ env = [build |-> "open_source", DISABLE_CACHING |-> "unset",
              ONLY_REMOTE_DEP_FILE_CACHE |-> "unset"]
    /\ WARN = FALSE
    /\ warnings = 0
    /\ \E config \in WarnConfigs :
          LET out == get_command_executor(factory, env, config)
          IN  /\ executor_config = Some(config)
              /\ result = out.result
              /\ locals = out.locals
    /\ result.tag = "Ok"
    /\ pipeline = [response |-> result.val,
                   history |-> [a \in Actions |-> << >>]]
    /\ calls = Unused /\ run = Unused
    /\ sharing = Unused /\ daemon = Unused /\ channel = Unused
    /\ cli = Unused

PipelineUnchanged ==
    UNCHANGED <<factory, env, WARN, warnings, executor_config, result, locals,
                calls, run, sharing, daemon, channel, cli>>

\* The last step of an action, "start" before the first.
LastStep(a) ==
    IF pipeline.history[a] = << >> THEN "start"
    ELSE pipeline.history[a][Len(pipeline.history[a])].step

PipelineStep(a, step, by) ==
    pipeline' = [pipeline EXCEPT !.history[a] = Append(@, [step |-> step, by |-> by])]

\* The action is handed to the cache checker of the response.
PipelineCheckCache(a) ==
    /\ LastStep(a) = "start"
    /\ PipelineStep(a, "cache_check", pipeline.response.cache_checker.kind)
    /\ PipelineUnchanged

\* The cache checker answers; the no-op checker always misses.
PipelineCacheAnswers(a, answer) ==
    /\ LastStep(a) = "cache_check"
    /\ answer = "hit" =>
          pipeline.response.cache_checker.kind # "NoOpCommandOptionalExecutor"
    /\ PipelineStep(a, answer, pipeline.response.cache_checker.kind)
    /\ PipelineUnchanged

\* After a miss the action is handed to the executor of the response.
PipelineExecute(a) ==
    /\ LastStep(a) = "miss"
    /\ PipelineStep(a, "execute", pipeline.response.executor.kind)
    /\ PipelineUnchanged

\* The execution finishes.
PipelineExecutionFinishes(a, outcome) ==
    /\ LastStep(a) = "execute"
    /\ PipelineStep(a, outcome, pipeline.response.executor.kind)
    /\ PipelineUnchanged

\* After a successful execution the result is handed to the cache uploader.
PipelineUpload(a) ==
    /\ LastStep(a) = "success"
    /\ PipelineStep(a, "upload", pipeline.response.cache_uploader.kind)
    /\ PipelineUnchanged

\* The upload finishes.
PipelineUploadFinishes(a) ==
    /\ LastStep(a) = "upload"
    /\ PipelineStep(a, "uploaded", pipeline.response.cache_uploader.kind)
    /\ PipelineUnchanged

PipelineNext ==
    \/ \E a \in Actions : PipelineCheckCache(a)
    \/ \E a \in Actions, answer \in {"hit", "miss"} : PipelineCacheAnswers(a, answer)
    \/ \E a \in Actions : PipelineExecute(a)
    \/ \E a \in Actions, outcome \in {"success", "failure"} :
          PipelineExecutionFinishes(a, outcome)
    \/ \E a \in Actions : PipelineUpload(a)
    \/ \E a \in Actions : PipelineUploadFinishes(a)

PipelineSpec == PipelineInit /\ [][PipelineNext]_vars

(* Vocabulary of the pipeline claim *)
\* The position of a step in the history of an action, 0 when it did not happen.
StepAt(a, step) ==
    IF \E i \in 1 .. Len(pipeline.history[a]) : pipeline.history[a][i].step = step
    THEN CHOOSE i \in 1 .. Len(pipeline.history[a]) : pipeline.history[a][i].step = step
    ELSE 0
Happened(a, step) == StepAt(a, step) > 0
StepOnce(a, step) ==
    Cardinality({i \in 1 .. Len(pipeline.history[a]) : pipeline.history[a][i].step = step}) <= 1
DoneBy(a, step) == pipeline.history[a][StepAt(a, step)].by

----------------------------------------------------------------------------
(* HelperSpec: parse_concurrency and get_default_re_properties on one host *)

\* The largest number of CPUs num_cpus::get() detects here.
MaxCpus == 2

\* An unsigned integer as two 16-bit halves, so that every u32 is at hand.
Unsigned(hi, lo) == [hi |-> hi, lo |-> lo]
Zero == Unsigned(0, 0)

\* requested: u32, at and around the edges of the conversion.
RequestedValues ==
    {Zero, Unsigned(0, 1), Unsigned(0, 2), Unsigned(0, 2^16 - 1),
     Unsigned(1, 0), Unsigned(2^16 - 1, 2^16 - 1)}

\* Width of usize in bits on the targets Rust builds for.
PointerWidths == {16, 32, 64}

\* std::env::consts::OS: the three supported values and one that is not.
OperatingSystems == {"linux", "macos", "windows", "freebsd"}

HostPlatformOverride == {"Linux", "MacOs", "Windows", "DefaultPlatform"}

Panic(message) == [tag |-> "Panic", message |-> message]

\* usize::try_from(u32): fails when the value needs more bits than usize has.
try_into_usize(host, requested) ==
    IF host.pointer_width < 32 /\ requested.hi # 0
    THEN Err("Invalid concurrency")
    ELSE Ok(requested)

\* num_cpus::get(): at least one.
num_cpus_get(host) == Unsigned(0, host.num_cpus)

\* Mutant: zero is returned as it is.
parse_concurrency_keeps_zero(host, requested) ==
    try_into_usize(host, requested)

\* parse_concurrency
parse_concurrency(host, requested) ==
    LET converted == try_into_usize(host, requested)
    IN  IF converted.tag = "Err" THEN converted
        ELSE IF converted.val = Zero THEN Ok(num_cpus_get(host))
        ELSE Ok(converted.val)

\* The sorted map of the pairs, in key order.
re_properties_linux == << <<"platform", "linux-remote-execution">> >>
re_properties_macos == << <<"platform", "mac">>, <<"subplatform", "any">> >>
re_properties_windows == << <<"platform", "windows">> >>

\* Mutant: an unknown OS gets an empty property set.
get_default_re_properties_empty_for_unknown(host, host_platform) ==
    CASE host_platform = "Linux" -> Ok(re_properties_linux)
      [] host_platform = "MacOs" -> Ok(re_properties_macos)
      [] host_platform = "Windows" -> Ok(re_properties_windows)
      [] host_platform = "DefaultPlatform" ->
            CASE host.OS = "linux" -> Ok(re_properties_linux)
              [] host.OS = "macos" -> Ok(re_properties_macos)
              [] host.OS = "windows" -> Ok(re_properties_windows)
              [] OTHER -> Ok(<< >>)

\* get_default_re_properties; unimplemented!() is a panic.
get_default_re_properties(host, host_platform) ==
    CASE host_platform = "Linux" -> Ok(re_properties_linux)
      [] host_platform = "MacOs" -> Ok(re_properties_macos)
      [] host_platform = "Windows" -> Ok(re_properties_windows)
      [] host_platform = "DefaultPlatform" ->
            CASE host.OS = "linux" -> Ok(re_properties_linux)
              [] host.OS = "macos" -> Ok(re_properties_macos)
              [] host.OS = "windows" -> Ok(re_properties_windows)
              [] OTHER -> Panic("no support yet for operating system")

Hosts == [pointer_width : PointerWidths, num_cpus : 1 .. MaxCpus, OS : OperatingSystems]

HelperInit ==
    /\ factory = Unused /\ env = Unused /\ WARN = Unused /\ warnings = Unused
    /\ executor_config = Unused /\ result = Unused /\ locals = Unused
    /\ calls = Unused /\ run = Unused /\ sharing = Unused
    /\ pipeline = Unused /\ channel = Unused /\ cli = Unused
    /\ \E host \in Hosts : daemon = [host |-> host, call |-> NoCall]

HelperUnchanged ==
    UNCHANGED <<factory, env, WARN, warnings, executor_config, result, locals,
                calls, run, sharing, pipeline, channel, cli>>

ParseConcurrency(requested) ==
    /\ daemon' = [daemon EXCEPT !.call = [fn |-> "parse_concurrency",
                                          requested |-> requested,
                                          returned |-> parse_concurrency(daemon.host, requested)]]
    /\ HelperUnchanged

GetDefaultReProperties(host_platform) ==
    /\ daemon' = [daemon EXCEPT
                     !.call = [fn |-> "get_default_re_properties",
                               host_platform |-> host_platform,
                               returned |-> get_default_re_properties(daemon.host,
                                                                      host_platform)]]
    /\ HelperUnchanged

HelperNext ==
    \/ \E requested \in RequestedValues : ParseConcurrency(requested)
    \/ \E host_platform \in HostPlatformOverride : GetDefaultReProperties(host_platform)

HelperSpec == HelperInit /\ [][HelperNext]_vars

(* Vocabulary of the helper claims *)
CalledFn(fn) == daemon.call # NoCall /\ daemon.call.fn = fn
\* The value fits usize: 32 and 64 bits hold every u32, 16 bits only the low half.
Converts(requested) == daemon.host.pointer_width >= 32 \/ requested.hi = 0

\* C18: parse_concurrency(0) is Ok with the detected parallelism, which is positive;
\* parse_concurrency(n) with n > 0 is Ok(n) whenever n converts to usize; the result
\* is an error exactly when requested does not convert.
C18_ParseConcurrency ==
    CalledFn("parse_concurrency") =>
        LET requested == daemon.call.requested
            returned == daemon.call.returned
        IN  /\ requested = Zero =>
                  /\ returned = Ok(Unsigned(0, daemon.host.num_cpus))
                  /\ daemon.host.num_cpus > 0
            /\ (requested # Zero /\ Converts(requested)) => returned = Ok(requested)
            /\ returned.tag = "Err" <=> ~Converts(requested)
            /\ returned.tag = "Err" => returned.error = "Invalid concurrency"

\* Zero was requested on a host with more than one CPU, and got the CPU count.
C18_Witness ==
    /\ CalledFn("parse_concurrency")
    /\ daemon.call.requested = Zero
    /\ daemon.host.num_cpus > 1
    /\ daemon.call.returned = Ok(Unsigned(0, daemon.host.num_cpus))

\* C19: the default properties are {platform: linux-remote-execution} for Linux,
\* {platform: mac, subplatform: any} for MacOs, {platform: windows} for Windows; under
\* DefaultPlatform the running OS picks from the same table, and any other OS panics.
C19_Table ==
    [os \in {"linux", "macos", "windows"} |->
        CASE os = "linux" -> << <<"platform", "linux-remote-execution">> >>
          [] os = "macos" -> << <<"platform", "mac">>, <<"subplatform", "any">> >>
          [] os = "windows" -> << <<"platform", "windows">> >>]
C19_SelectedOS ==
    CASE daemon.call.host_platform = "Linux" -> "linux"
      [] daemon.call.host_platform = "MacOs" -> "macos"
      [] daemon.call.host_platform = "Windows" -> "windows"
      [] OTHER -> daemon.host.OS
C19_DefaultReProperties ==
    CalledFn("get_default_re_properties") =>
        IF C19_SelectedOS \in DOMAIN C19_Table
        THEN daemon.call.returned = Ok(C19_Table[C19_SelectedOS])
        ELSE daemon.call.returned.tag = "Panic"

\* DefaultPlatform on an unsupported OS panicked.
C19_Witness ==
    /\ CalledFn("get_default_re_properties")
    /\ daemon.call.host_platform = "DefaultPlatform"
    /\ daemon.host.OS = "freebsd"
    /\ daemon.call.returned.tag = "Panic"

----------------------------------------------------------------------------
(* BroadcastSpec: the handles of one BroadcastChannel *)

\* Handles ever created on the channel (the original and its clones), and items sent.
MaxHandles == 3
MaxItems == 2

HandleIds == 1 .. MaxHandles
Items == 1 .. MaxItems

(* slab::Slab: keys count from 0, entry k is entries[k + 1] *)
Occupied(val) == [occupied |-> TRUE, val |-> val]
Vacant(next) == [occupied |-> FALSE, next |-> next]
SlabNew == [entries |-> << >>, next |-> 0]

\* Mutant: the key is taken to be the length of the slab.
slab_insert_key_is_length(slab) == Len(slab.entries)

\* Slab::insert: the key is the head of the vacant list, or the length.
slab_insert_key(slab) == slab.next
slab_insert(slab, val) ==
    LET key == slab.next
    IN  IF key = Len(slab.entries)
        THEN [entries |-> Append(slab.entries, Occupied(val)), next |-> key + 1]
        ELSE [entries |-> [slab.entries EXCEPT ![key + 1] = Occupied(val)],
              next |-> slab.entries[key + 1].next]

slab_contains(slab, key) ==
    key + 1 \in 1 .. Len(slab.entries) /\ slab.entries[key + 1].occupied

\* Mutant: the sender stays in the slab.
slab_remove_nothing(slab, key) == slab

\* Slab::remove: the entry becomes the head of the vacant list.
slab_remove(slab, key) ==
    [entries |-> [slab.entries EXCEPT ![key + 1] = Vacant(slab.next)], next |-> key]

RECURSIVE slab_iter_from(_, _)
slab_iter_from(slab, i) ==
    IF i > Len(slab.entries) THEN << >>
    ELSE (IF slab.entries[i].occupied THEN <<slab.entries[i].val>> ELSE << >>)
         \o slab_iter_from(slab, i + 1)

\* Slab::iter: the occupied entries in key order.
slab_iter(slab) == slab_iter_from(slab, 1)

Range(seq) == {seq[i] : i \in 1 .. Len(seq)}

\* A sender is named by the handle whose receiver it feeds.
\* Mutant: the sender of the sending handle is left out of the copy.
senders_without_self(ch, h) ==
    SelectSeq(slab_iter(ch.senders), LAMBDA t : t # h)

\* BroadcastChannel::senders: a copy of the slab taken under the read lock.
senders(ch, h) == slab_iter(ch.senders)

NoHandle == [state |-> "none", sender_key |-> 0, delivered |-> << >>, taken |-> 0]
NoSend ==
    [pc |-> "unsent", by |-> 0, targets |-> << >>, remaining |-> << >>,
     sharing |-> {}, after |-> {}, result |-> "none"]

\* BroadcastChannel::new: one sender in a fresh slab, an empty receiver.
BroadcastChannelNew ==
    [senders |-> slab_insert(SlabNew, 1),
     handles |-> [h \in HandleIds |->
                     IF h = 1 THEN [NoHandle EXCEPT !.state = "live",
                                                    !.sender_key = slab_insert_key(SlabNew)]
                     ELSE NoHandle],
     sends |-> [i \in Items |-> NoSend]]

BroadcastInit ==
    /\ factory = Unused /\ env = Unused /\ WARN = Unused /\ warnings = Unused
    /\ executor_config = Unused /\ result = Unused /\ locals = Unused
    /\ calls = Unused /\ run = Unused /\ sharing = Unused
    /\ pipeline = Unused /\ daemon = Unused /\ cli = Unused
    /\ channel = BroadcastChannelNew

BroadcastUnchanged ==
    UNCHANGED <<factory, env, WARN, warnings, executor_config, result, locals,
                calls, run, sharing, pipeline, daemon, cli>>

Live(h) == channel.handles[h].state = "live"
\* The receiver of a handle exists until the fields of the handle are dropped.
ReceiverAlive(h) == channel.handles[h].state \in {"live", "dropping"}
\* A send borrows its handle until it returns.
Borrowed(h) ==
    \E i \in Items : channel.sends[i].pc = "delivering" /\ channel.sends[i].by = h

\* Mutant: the clone starts with what the receiver it was cloned from was given.
BroadcastClone_copies_receiver(h, new) ==
    /\ Live(h)
    /\ channel.handles[new].state = "none"
    /\ \A other \in HandleIds : other < new => channel.handles[other].state # "none"
    /\ channel' = [channel EXCEPT
                      !.senders = slab_insert(@, new),
                      !.handles[new] = [channel.handles[h] EXCEPT
                                           !.state = "live",
                                           !.sender_key = slab_insert_key(channel.senders)]]
    /\ BroadcastUnchanged

\* Clone::clone: ctor() makes a new pair, the sender is inserted under the write lock.
BroadcastClone(h, new) ==
    /\ Live(h)
    /\ channel.handles[new].state = "none"
    /\ \A other \in HandleIds : other < new => channel.handles[other].state # "none"
    /\ channel' = [channel EXCEPT
                      !.senders = slab_insert(@, new),
                      !.handles[new] = [NoHandle EXCEPT
                                           !.state = "live",
                                           !.sender_key = slab_insert_key(channel.senders)]]
    /\ BroadcastUnchanged

\* Drop::drop: the sender of the handle is removed under the write lock.
BroadcastDrop(h) ==
    /\ Live(h) /\ ~Borrowed(h)
    /\ slab_contains(channel.senders, channel.handles[h].sender_key)
    /\ channel' = [channel EXCEPT
                      !.senders = slab_remove(@, channel.handles[h].sender_key),
                      !.handles[h].state = "dropping"]
    /\ BroadcastUnchanged

\* After Drop::drop the fields go: the receiver is dropped with what it holds, and its
\* channel closes.
BroadcastDropFields(h) ==
    /\ channel.handles[h].state = "dropping"
    /\ channel' = [channel EXCEPT !.handles[h] = [NoHandle EXCEPT !.state = "dropped"]]
    /\ BroadcastUnchanged

\* send, first half: the copy of the senders.
BroadcastSendSnapshot(h, item) ==
    /\ Live(h)
    /\ channel.sends[item].pc = "unsent"
    /\ \A earlier \in Items : earlier < item => channel.sends[earlier].pc # "unsent"
    /\ LET copy == senders(channel, h)
       IN  channel' = [channel EXCEPT
                          !.sends[item] =
                              [pc |-> IF copy = << >> THEN "done" ELSE "delivering",
                               by |-> h,
                               targets |-> copy,
                               remaining |-> copy,
                               sharing |-> {t \in HandleIds : Live(t)},
                               after |-> {earlier \in Items :
                                             channel.sends[earlier].pc = "done"},
                               result |-> IF copy = << >> THEN "Ok" ELSE "none"]]
    /\ BroadcastUnchanged

\* Mutant: the send returns Ok after its first delivery and the others follow later.
BroadcastSendDeliver_returns_early(item) ==
    /\ channel.sends[item].pc \in {"delivering", "done"}
    /\ channel.sends[item].result # "Err"
    /\ channel.sends[item].remaining # << >>
    /\ LET target == Head(channel.sends[item].remaining)
           rest == Tail(channel.sends[item].remaining)
       IN  IF ReceiverAlive(target)
           THEN channel' = [channel EXCEPT
                               !.handles[target].delivered = Append(@, item),
                               !.sends[item].remaining = rest,
                               !.sends[item].pc = "done",
                               !.sends[item].result = "Ok"]
           ELSE channel' = [channel EXCEPT
                               !.sends[item].pc = "done",
                               !.sends[item].result = "Err"]
    /\ BroadcastUnchanged

\* send, second half: try_join_all polls the sends in the order of the copy; a sender
\* whose receiver is gone fails, and the first failure ends the send.
BroadcastSendDeliver(item) ==
    /\ channel.sends[item].pc = "delivering"
    /\ LET target == Head(channel.sends[item].remaining)
           rest == Tail(channel.sends[item].remaining)
       IN  IF ReceiverAlive(target)
           THEN channel' = [channel EXCEPT
                               !.handles[target].delivered = Append(@, item),
                               !.sends[item].remaining = rest,
                               !.sends[item].pc =
                                   IF rest = << >> THEN "done" ELSE "delivering",
                               !.sends[item].result =
                                   IF rest = << >> THEN "Ok" ELSE "none"]
           ELSE channel' = [channel EXCEPT
                               !.sends[item].pc = "done",
                               !.sends[item].result = "Err"]
    /\ BroadcastUnchanged

\* Stream::poll_next / recv: the next item of the handle's own receiver.
BroadcastRecv(h) ==
    /\ Live(h) /\ ~Borrowed(h)
    /\ channel.handles[h].taken < Len(channel.handles[h].delivered)
    /\ channel' = [channel EXCEPT !.handles[h].taken = @ + 1]
    /\ BroadcastUnchanged

BroadcastNext ==
    \/ \E h, new \in HandleIds : BroadcastClone(h, new)
    \/ \E h \in HandleIds : BroadcastDrop(h)
    \/ \E h \in HandleIds : BroadcastDropFields(h)
    \/ \E h \in HandleIds, item \in Items : BroadcastSendSnapshot(h, item)
    \/ \E item \in Items : BroadcastSendDeliver(item)
    \/ \E h \in HandleIds : BroadcastRecv(h)

BroadcastSpec == BroadcastInit /\ [][BroadcastNext]_vars

(* Vocabulary of the broadcast claims *)
Sent(item) == channel.sends[item].pc # "unsent"
Targets(item) == Range(channel.sends[item].targets)
\* The handles a send has delivered to so far.
Reached(item) ==
    {channel.sends[item].targets[i] :
        i \in 1 .. (Len(channel.sends[item].targets) - Len(channel.sends[item].remaining))}
Copies(h, item) ==
    Cardinality({i \in 1 .. Len(channel.handles[h].delivered) :
                    channel.handles[h].delivered[i] = item})

\* C20 as stated: once a send has returned, every handle that shared the channel when
\* the send began and still has its receiver holds one copy of the item.
C20_Original ==
    \A item \in Items :
        channel.sends[item].pc = "done" =>
            \A h \in channel.sends[item].sharing :
                ReceiverAlive(h) => Copies(h, item) = 1

\* C20 amended: a send from a live handle targets exactly the handles sharing the
\* channel when it copies the senders, the sending handle included, in the order of
\* their keys; every target it has delivered to holds one copy of the item in its
\* receiver, nobody else holds any; it returns Ok exactly when every delivery succeeded;
\* it returns an error at the first target whose receiver is gone, and the targets
\* after that one get nothing.
C20_SendReachesAll ==
    \A item \in Items :
        Sent(item) =>
            LET send == channel.sends[item]
            IN  /\ Targets(item) = send.sharing
                /\ send.by \in Targets(item)
                /\ Cardinality(Targets(item)) = Len(send.targets)
                /\ \A i, j \in 1 .. Len(send.targets) :
                      (i < j /\ Live(send.targets[i]) /\ Live(send.targets[j])) =>
                          channel.handles[send.targets[i]].sender_key
                              < channel.handles[send.targets[j]].sender_key
                /\ \A h \in HandleIds :
                      ReceiverAlive(h) =>
                          Copies(h, item) = (IF h \in Reached(item) THEN 1 ELSE 0)
                /\ send.result = "Ok" <=> (send.pc = "done" /\ Reached(item) = Targets(item))
                /\ send.result = "Err" =>
                      /\ send.pc = "done"
                      /\ ~ReceiverAlive(Head(send.remaining))
                /\ send.pc = "done" <=> send.result # "none"

\* A clone sent an item; the send returned Ok and the original, the clone itself and a
\* second clone each hold the item, the sender having received it.
C20_Witness ==
    \E item \in Items :
        /\ channel.sends[item].result = "Ok"
        /\ channel.sends[item].by = 2
        /\ Targets(item) = HandleIds
        /\ \A h \in HandleIds : Live(h) /\ Copies(h, item) = 1
        /\ channel.handles[2].taken >= 1

\* The place of an item in what a receiver was given, 0 when it was not given it.
Position(h, item) ==
    IF Copies(h, item) = 0 THEN 0
    ELSE CHOOSE i \in 1 .. Len(channel.handles[h].delivered) :
             channel.handles[h].delivered[i] = item
\* What the receiver of a handle has yielded so far, in order.
Yielded(h) == SubSeq(channel.handles[h].delivered, 1, channel.handles[h].taken)

\* C21: when the send of one item completed before the send of another began, every
\* receiver that was given both was given the first before the second, and yields them
\* in that order; a receiver never yields the second while the first is still waiting.
C21_SendOrder ==
    \A second \in Items :
        \A first \in channel.sends[second].after :
            \A h \in HandleIds :
                (Copies(h, first) > 0 /\ Copies(h, second) > 0) =>
                    /\ Position(h, first) < Position(h, second)
                    /\ second \in Range(Yielded(h)) => first \in Range(Yielded(h))

\* One handle sent an item, then another handle sent a second one, and a third handle
\* has yielded both, the first before the second.
C21_Witness ==
    /\ channel.sends[1].result = "Ok" /\ channel.sends[2].result = "Ok"
    /\ channel.sends[1].by # channel.sends[2].by
    /\ 1 \in channel.sends[2].after
    /\ \E h \in HandleIds :
          /\ h \notin {channel.sends[1].by, channel.sends[2].by}
          /\ Yielded(h) = <<1, 2>>

----------------------------------------------------------------------------
(* Further properties of get_command_executor (Spec) *)

\* The checkers an executor holds inside itself.
CheckersInside(executor) ==
    IF executor.kind = "HybridExecutor" /\ executor.remote.kind = "StackedExecutor"
    THEN {executor.remote.optional}
    ELSE {}

\* C22: under paranoid every response built from a RemoteEnabled config has the no-op
\* checker as its cache_checker; with inner executor Local or Remote cache_checker_new
\* is never called and the executor holds no checker; with Hybrid the chain exists only
\* as the first stage of the stacked remote side of the hybrid executor.
C22_ParanoidCacheChecker ==
    (Called /\ CalledExecutor.kind = "RemoteEnabled" /\ factory.paranoid
     /\ result.tag = "Ok") =>
        /\ result.val.cache_checker = NoOpCommandOptionalExecutor
        /\ CalledExecutor.executor.kind \in {"Local", "Remote"} =>
              /\ ~locals.cache_checker_new.some
              /\ result.val.executor.kind \in {"LocalExecutor", "ReExecutor"}
              /\ CheckersInside(result.val.executor) = {}
        /\ CalledExecutor.executor.kind = "Hybrid" =>
              IF result.val.executor.kind = "HybridExecutor"
              THEN /\ locals.cache_checker_new.some
                   /\ CheckersInside(result.val.executor) = {locals.cache_checker_new.val}
                   /\ result.val.executor.local.kind = "LocalExecutor"
                   /\ result.val.executor.remote.fallback.kind = "ReExecutor"
              ELSE /\ ~locals.cache_checker_new.some
                   /\ CheckersInside(result.val.executor) = {}

\* Under paranoid a Remote config with caching enabled got the no-op checker and no
\* chain was built.
C22_Witness ==
    /\ CalledRemoteEnabled("Remote")
    /\ factory.paranoid
    /\ HasRemoteAccess
    /\ result.tag = "Ok"
    /\ locals.disable_caching = Some(FALSE)
    /\ ~locals.cache_checker_new.some
    /\ result.val.cache_checker = NoOpCommandOptionalExecutor

\* C23: in the chain the dep-file stage is a RemoteDepFileCacheChecker exactly when
\* remote_dep_file_cache_enabled is true, and the no-op otherwise; so with caching
\* enabled, only_remote_dep_file_cache true and remote_dep_file_cache_enabled false,
\* remote_cache_enabled is true and still the whole chain, and the cache_checker of a
\* response built without paranoid, is the no-op.
DepFileStage(chain) ==
    IF chain.kind = "ActionCacheChecker" THEN chain.remote_dep_file_checker ELSE chain
C23_DepFileStage ==
    (locals.cache_checker_new.some /\ ~locals.disable_caching.val) =>
        LET chain == locals.cache_checker_new.val
            only == locals.only_remote_dep_file_cache.val
        IN  /\ DepFileStage(chain).kind =
                  (IF CalledExecutor.remote_dep_file_cache_enabled
                   THEN "RemoteDepFileCacheChecker"
                   ELSE "NoOpCommandOptionalExecutor")
            /\ chain.kind = "ActionCacheChecker" <=> ~only
            /\ (only /\ ~CalledExecutor.remote_dep_file_cache_enabled) =>
                  /\ chain = NoOpCommandOptionalExecutor
                  /\ CalledExecutor.remote_cache_enabled
                  /\ (result.tag = "Ok" /\ ~factory.paranoid) =>
                        result.val.cache_checker = NoOpCommandOptionalExecutor

\* Caching is enabled and remote_cache_enabled is true, yet the response's checker is
\* the no-op because only the (disabled) dep-file cache is to be used.
C23_Witness ==
    /\ Called /\ result.tag = "Ok"
    /\ env.ONLY_REMOTE_DEP_FILE_CACHE = "true"
    /\ locals.cache_checker_new.some
    /\ locals.disable_caching = Some(FALSE)
    /\ CalledExecutor.remote_cache_enabled
    /\ ~CalledExecutor.remote_dep_file_cache_enabled
    /\ ~factory.paranoid
    /\ result.val.cache_checker = NoOpCommandOptionalExecutor

\* The remote executors of a response: the executor itself, or the remote side of a
\* hybrid executor (under its stack when there is one).
RemoteExecutors(executor) ==
    CASE executor.kind = "ReExecutor" -> {executor}
      [] executor.kind = "HybridExecutor" ->
            {IF executor.remote.kind = "StackedExecutor"
             THEN executor.remote.fallback ELSE executor.remote}
      [] OTHER -> {}

\* C24: every remote executor the factory builds has skip_cache_read =
\* factory.skip_cache_read \/ ~remote_cache_enabled and skip_cache_write =
\* factory.skip_cache_write \/ ~remote_cache_enabled, whatever the
\* BUCK2_TEST_DISABLE_CACHING override and remote_dep_file_cache_enabled are
\* (C24_Witness: the flags disagree with disable_caching).
C24_RemoteSkipFlags ==
    (Called /\ result.tag = "Ok") =>
        \A remote \in RemoteExecutors(result.val.executor) :
            /\ CalledExecutor.kind = "RemoteEnabled"
            /\ remote.skip_cache_read =
                  (factory.skip_cache_read \/ ~CalledExecutor.remote_cache_enabled)
            /\ remote.skip_cache_write =
                  (factory.skip_cache_write \/ ~CalledExecutor.remote_cache_enabled)

\* The override disables caching for the checker and the uploader while the remote
\* executor of the same response still reads and writes the cache.
C24_Witness ==
    /\ Called /\ result.tag = "Ok"
    /\ env.DISABLE_CACHING = "true"
    /\ locals.disable_caching = Some(TRUE)
    /\ result.val.cache_checker = NoOpCommandOptionalExecutor
    /\ result.val.cache_uploader = NoOpCacheUploader
    /\ \E remote \in RemoteExecutors(result.val.executor) :
          ~remote.skip_cache_read /\ ~remote.skip_cache_write

----------------------------------------------------------------------------
(* Further properties of the BroadcastChannel (BroadcastSpec) *)

LiveHandles == {h \in HandleIds : Live(h)}
\* The keys of the slab that hold a sender.
OccupiedKeys ==
    {k \in 0 .. Len(channel.senders.entries) - 1 : slab_contains(channel.senders, k)}

\* C25: the slab holds one sender per live handle: the sender_key of every live handle
\* is occupied by that handle's sender, live handles have pairwise distinct keys, and
\* every occupied key is the sender_key of a live handle, so that nothing is left of a
\* dropped handle.
C25_SlabMatchesHandles ==
    /\ \A h \in LiveHandles :
          /\ slab_contains(channel.senders, channel.handles[h].sender_key)
          /\ channel.senders.entries[channel.handles[h].sender_key + 1].val = h
    /\ \A h, other \in LiveHandles :
          h # other => channel.handles[h].sender_key # channel.handles[other].sender_key
    /\ OccupiedKeys = {channel.handles[h].sender_key : h \in LiveHandles}
    /\ Cardinality(OccupiedKeys) = Cardinality(LiveHandles)
    /\ Len(slab_iter(channel.senders)) = Cardinality(LiveHandles)

\* The first clone was dropped and the second clone took over its key: keys 0 and 1 are
\* held by the original and the second clone.
C25_Witness ==
    /\ channel.handles[2].state = "dropped"
    /\ Live(1) /\ Live(3)
    /\ channel.handles[1].sender_key = 0
    /\ channel.handles[3].sender_key = 1
    /\ Len(channel.senders.entries) = 2

\* What the receiver of a handle was given, as a set.
Given(h) == Range(channel.handles[h].delivered)
\* The sends that copied the senders while the handle was in the slab.
SnapshotsWith(h) == {item \in Items : Sent(item) /\ h \in channel.sends[item].sharing}

\* C26 as stated: a clone has been given exactly the items of the completed sends that
\* copied the senders after the clone inserted its sender.
C26_Original ==
    \A h \in HandleIds \ {1} :
        ReceiverAlive(h) =>
            \A item \in Items :
                channel.sends[item].pc = "done" =>
                    (item \in Given(h) <=> item \in SnapshotsWith(h))

\* C26 amended: a clone is given only items of sends that copied the senders after the
\* clone inserted its sender, each once: nothing sent before it was cloned, nothing of
\* a send whose copy was taken before a concurrent clone. Of those sends it is given
\* every one that returned Ok; a send that returned an error may have stopped before it.
C26_CloneReceives ==
    \A h \in HandleIds \ {1} :
        /\ channel.handles[h].state = "none" => channel.handles[h].delivered = << >>
        /\ ReceiverAlive(h) =>
              /\ Given(h) \subseteq SnapshotsWith(h)
              /\ \A item \in Items :
                    /\ Copies(h, item) <= 1
                    /\ (item \in SnapshotsWith(h) /\ channel.sends[item].result = "Ok")
                          => item \in Given(h)
                    /\ (item \in SnapshotsWith(h) /\ item \notin Given(h)
                        /\ channel.sends[item].pc = "done")
                          => channel.sends[item].result = "Err"

\* A send from the original is still in flight with a copy taken before the clone; the
\* clone is not among its targets, holds nothing of it, and has been given the item it
\* sent itself afterwards.
C26_Witness ==
    /\ channel.sends[1].by = 1
    /\ channel.sends[1].pc = "delivering"
    /\ Live(2)
    /\ 2 \notin channel.sends[1].sharing
    /\ channel.sends[2].by = 2
    /\ channel.sends[2].result = "Ok"
    /\ channel.handles[2].delivered = <<2>>

\* The target at which a send failed.
FailedAt(item) == Head(channel.sends[item].remaining)
\* A send copies the senders in this step.
TakesSnapshot(item) == channel.sends[item].pc = "unsent" /\ channel'.sends[item].pc # "unsent"

\* C27: a send returns Ok and has reached every other handle that was live when it
\* copied the senders, unless one of those handles was dropped before the send delivered
\* to it: an error comes only from a target that was live at the copy and whose receiver
\* is gone at the delivery. A handle dropped before the copy is no target of the send,
\* and so no cause of its failure.
C27_SendAndDrop ==
    /\ [](\A item \in Items :
             channel.sends[item].pc = "done" =>
                 IF channel.sends[item].result = "Ok"
                 THEN \A h \in channel.sends[item].sharing \ {channel.sends[item].by} :
                          h \in Reached(item)
                 ELSE /\ channel.sends[item].result = "Err"
                      /\ FailedAt(item) \in channel.sends[item].sharing
                      /\ FailedAt(item) # channel.sends[item].by
                      /\ channel.handles[FailedAt(item)].state = "dropped")
    /\ [][\A item \in Items :
             TakesSnapshot(item) =>
                 /\ Live(channel'.sends[item].by)
                 /\ \A h \in HandleIds :
                       ~Live(h) => h \notin Range(channel'.sends[item].targets)]_vars

\* A first send, made after one clone was dropped, returned Ok and reached the handles
\* live at its copy, the dropped clone not being a target; a second send failed at the
\* other clone, which was dropped after the copy was taken.
C27_Witness ==
    /\ channel.sends[1].result = "Ok"
    /\ channel.sends[1].by = 1
    /\ channel.sends[1].targets = <<1, 3>>
    /\ channel.handles[2].state = "dropped"
    /\ Reached(1) = {1, 3}
    /\ channel.handles[3].state = "dropped"
    /\ channel.sends[2].result = "Err"
    /\ channel.sends[2].by = 1
    /\ FailedAt(2) = 3

----------------------------------------------------------------------------
(* ExecSpec: the CLI entry point exec *)

\* Some of the subcommands of CommandKind: the three the user check is skipped for, one
\* more that exists only outside client-only builds, and ordinary ones.
CommandKind ==
    {"Daemon", "Forkserver", "Clean", "InternalTestRunner", "Build", "Test", "Kill", "Status"}

\* The variants compiled in: Daemon and InternalTestRunner are cfg(not(client_only)).
CommandKindOf(build) ==
    IF build.client_only THEN CommandKind \ {"Daemon", "InternalTestRunner"} ELSE CommandKind

\* Mutant: Clean goes through the user check as well.
skips_user_check_without_clean(build, cmd) ==
    \/ (~build.client_only /\ cmd = "Daemon")
    \/ cmd = "Forkserver"

\* The arms of `match &opt.cmd` that do nothing.
skips_user_check(build, cmd) ==
    \/ (~build.client_only /\ cmd = "Daemon")
    \/ cmd \in {"Clean", "Forkserver"}

\* The message of the error returned for --help-wrapper (without its backquotes).
HelpWrapperError == "--help-wrapper should have been handled by the wrapper"

ExecInit ==
    /\ factory = Unused /\ env = Unused /\ WARN = Unused /\ warnings = Unused
    /\ executor_config = Unused /\ result = Unused /\ locals = Unused
    /\ calls = Unused /\ run = Unused /\ sharing = Unused
    /\ pipeline = Unused /\ daemon = Unused /\ channel = Unused
    /\ \E build \in [oss : BOOLEAN, client_only : BOOLEAN],
          args \in [cmd : CommandKind, help_wrapper : BOOLEAN, argfiles : {"ok", "error"}],
          arg0 \in {"unset", "set", "invalid"},
          user_allowed \in BOOLEAN :
          cli = [build |-> build,
                 args |-> args,
                 BUCK2_ARG0 |-> arg0,
                 user_allowed |-> user_allowed,
                 pc |-> "expand_argfiles",
                 opt |-> None,
                 trace |-> << >>,
                 returned |-> NoCall]

ExecUnchanged ==
    UNCHANGED <<factory, env, WARN, warnings, executor_config, result, locals,
                calls, run, sharing, pipeline, daemon, channel>>

ExecReturn(value) == cli' = [cli EXCEPT !.pc = "returned", !.returned = value]

\* expand_argfiles_with_context(..).context("Error expanding argsfiles")?
ExecExpandArgfiles ==
    /\ cli.pc = "expand_argfiles"
    /\ IF cli.args.argfiles = "error"
       THEN ExecReturn(Err("Error expanding argsfiles"))
       ELSE cli' = [cli EXCEPT !.pc = "arg0"]
    /\ ExecUnchanged

\* if let Some(arg0) = buck2_env!("BUCK2_ARG0")? { expanded_args[0] = arg0 }
ExecArg0 ==
    /\ cli.pc = "arg0"
    /\ IF cli.BUCK2_ARG0 = "invalid"
       THEN ExecReturn(Err("BUCK2_ARG0"))
       ELSE cli' = [cli EXCEPT !.pc = "parse"]
    /\ ExecUnchanged

\* clap: get_matches_from ends the process on a command line it rejects (a subcommand
\* that is not compiled in; --help-wrapper where the field is #[clap(skip)]);
\* Opt::from_arg_matches gives opt.
ExecParse ==
    /\ cli.pc = "parse"
    /\ IF \/ cli.args.cmd \notin CommandKindOf(cli.build)
          \/ (cli.args.help_wrapper /\ cli.build.oss)
       THEN cli' = [cli EXCEPT !.pc = "exited", !.returned = [tag |-> "Exit"]]
       ELSE cli' = [cli EXCEPT
                       !.pc = "help_wrapper",
                       !.opt = Some([cmd |-> cli.args.cmd,
                                     help_wrapper |-> cli.args.help_wrapper])]
    /\ ExecUnchanged

\* if opt.common_opts.help_wrapper { return ExitResult::err(..) }
ExecHelpWrapper ==
    /\ cli.pc = "help_wrapper"
    /\ IF cli.opt.val.help_wrapper
       THEN ExecReturn(Err(HelpWrapperError))
       ELSE cli' = [cli EXCEPT !.pc = "check_user"]
    /\ ExecUnchanged

\* match &opt.cmd { Daemon | Clean | Forkserver => {}, _ => check_user_allowed()? }
ExecCheckUser ==
    /\ cli.pc = "check_user"
    /\ IF skips_user_check(cli.build, cli.opt.val.cmd)
       THEN cli' = [cli EXCEPT !.pc = "exec"]
       ELSE IF cli.user_allowed
            THEN cli' = [cli EXCEPT !.pc = "exec",
                                    !.trace = Append(@, "check_user_allowed")]
            ELSE cli' = [cli EXCEPT !.pc = "returned",
                                    !.trace = Append(@, "check_user_allowed"),
                                    !.returned = Err("check_user_allowed")]
    /\ ExecUnchanged

\* opt.exec(process, &immediate_config, &matches, argv): the subcommand runs and its
\* ExitResult is what exec returns.
ExecSubcommand(outcome) ==
    /\ cli.pc = "exec"
    /\ cli' = [cli EXCEPT !.pc = "returned",
                          !.trace = Append(@, cli.opt.val.cmd),
                          !.returned = outcome]
    /\ ExecUnchanged

ExecNext ==
    \/ ExecExpandArgfiles
    \/ ExecArg0
    \/ ExecParse
    \/ ExecHelpWrapper
    \/ ExecCheckUser
    \/ \E outcome \in {Ok("success"), Err("subcommand")} : ExecSubcommand(outcome)

ExecSpec == ExecInit /\ [][ExecNext]_vars

(* Vocabulary of the exec claim *)
SubcommandRan == \E i \in 1 .. Len(cli.trace) : cli.trace[i] \in CommandKind
UserChecked == \E i \in 1 .. Len(cli.trace) : cli.trace[i] = "check_user_allowed"
ExemptFromUserCheck == cli.args.cmd \in {"Daemon", "Clean", "Forkserver"}

\* C28: the subcommand that runs is the one given; for every subcommand but Daemon,
\* Clean and Forkserver it runs only after check_user_allowed ran and succeeded, and a
\* failed check is what exec returns; Daemon, Clean and Forkserver run without the
\* check; with help_wrapper set exec returns its error with neither the check nor a
\* subcommand having run.
C28_UserCheckBeforeSubcommand ==
    /\ SubcommandRan =>
          /\ cli.trace[Len(cli.trace)] = cli.args.cmd
          /\ cli.pc = "returned"
          /\ IF ExemptFromUserCheck
             THEN cli.trace = <<cli.args.cmd>>
             ELSE cli.trace = <<"check_user_allowed", cli.args.cmd>> /\ cli.user_allowed
    /\ UserChecked => ~ExemptFromUserCheck
    /\ (UserChecked /\ ~cli.user_allowed) =>
          /\ cli.returned = Err("check_user_allowed")
          /\ ~SubcommandRan
    /\ cli.pc = "exec" => (UserChecked <=> ~ExemptFromUserCheck)
    /\ (cli.opt.some /\ cli.opt.val.help_wrapper /\ cli.pc \notin {"help_wrapper"}) =>
          /\ cli.returned = Err(HelpWrapperError)
          /\ cli.trace = << >>

\* Build ran after the user check had run and succeeded.
C28_Witness ==
    /\ cli.args.cmd = "Build"
    /\ cli.user_allowed
    /\ cli.trace = <<"check_user_allowed", "Build">>
    /\ cli.returned = Ok("success")

====
